---- MODULE Spec2Model ----
(***************************************************************************)
(* Model of the inventory chat client (frontend/src/App.tsx): the response *)
(* extractor parseDaemoResponse with its helpers, parseCSV, the            *)
(* sendMessage request life cycle and the table, sheet and health probe    *)
(* state of the App component; of the streaming endpoint                   *)
(* processQueryStreamed with the client that reads it; and of              *)
(* InventoryService: getLowStockItems and the two operations that write   *)
(* to the sheet, modifyStockQuantity and addNewProduct, as concurrent      *)
(* calls; and of the connection life cycle of daemoService (initDaemo)     *)
(* with its four callers.                                                  *)
(*                                                                         *)
(* JavaScript values are tagged records: [kind |-> "undefined"],           *)
(* [kind |-> "null"], [kind |-> "scalar", truthy |-> b] (a number or a     *)
(* boolean), [kind |-> "str", s |-> <<characters>>], [kind |-> "obj",      *)
(* o |-> record] and [kind |-> "arr", a |-> <<values>>].  A string is a    *)
(* sequence of one-character strings; in a jsx string a tag is one         *)
(* element.                                                                *)
(***************************************************************************)
EXTENDS Integers, Sequences, FiniteSets, TLC

VARIABLES
    messages,        \* useState<Message[]>: the conversation
    input,           \* useState(""): the text box
    loading,         \* useState(false): a chat request is running
    inflight,        \* the sendMessage invocations suspended at an await
    nextId,          \* the ids genId has handed out so far
    sendLog,         \* history: one entry per sendMessage call with a non-blank query
    data,            \* extractor harness: the payload given to parseDaemoResponse
    parsed,          \* extractor harness: what parseDaemoResponse returned
    csvText,         \* CSV harness: the document given to parseCSV
    csvParsed,       \* CSV harness: what parseCSV returned
    sheetRows,       \* the Inventory!A:F range of the sheet, header row first
    lowStock,        \* what getLowStockItems returned
    stockCalls,      \* each tool call that writes: its arguments, where it stands, its result
    sheetWrites,     \* history: the update and append requests the sheet has applied
    sheetAtStart,    \* history: the sheet before the first call
    req,             \* POST /agent/query-stream: the request being served
    res,             \* its response: status, body written so far, ended, aborted, and
                     \* how often res.end() was called and res.write() after the end
    stream,          \* the agent's stream: "none", "open" or "cancelled"
    calls,           \* history: the callbacks the agent's stream has made, in order
    expandedTables,  \* useState(new Set()): the ids of the messages whose table is open
    serverStatus,    \* useState("idle"): "idle", "checking", "online" or "offline"
    sheetData,       \* useState([]): the rows of the sheet panel
    sheetLoading,    \* useState(false): a sheet fetch is running
    sheetError,      \* useState(null): the message of the last failed sheet fetch
    sessionData,     \* daemoService: let sessionData: SessionData | null
    connection,      \* daemoService: let connection: DaemoHostedConnection | null
    connecting,      \* daemoService: let connecting = false
    daemoPc,         \* each caller of initDaemo: "idle", or "start" at await connection.start()
    initResult,      \* each caller's last call of initDaemo and what the caller made of it
    net              \* the client's read of the body: the bytes taken and
                     \* received, rawText, and whether a chunk ended inside a character

chatVars == <<messages, input, loading, inflight, nextId, sendLog>>
parseVars == <<data, parsed>>
csvVars == <<csvText, csvParsed>>
invVars == <<sheetRows, lowStock, stockCalls, sheetWrites, sheetAtStart>>
streamVars == <<req, res, stream, calls, net>>
appVars == <<expandedTables, serverStatus, sheetData, sheetLoading, sheetError>>
daemoVars == <<sessionData, connection, connecting, daemoPc, initResult>>
restVars == <<csvVars, invVars, streamVars, appVars, daemoVars>>
vars == <<messages, input, loading, inflight, nextId, sendLog, data, parsed, restVars>>

\* ------------------------------------------------------------------ bounds
MaxTools == 2        \* tool interactions in one payload
MaxStored == 1       \* stored items in one tool interaction
MaxJsxLen == 3       \* tokens in a jsx string
MaxCalls == 3        \* sendMessage calls with a non-blank query in one run
MaxCsvLen == 5       \* characters in a CSV document
MaxRows == 2         \* data rows of the inventory sheet
MaxQty == 2          \* greatest number in a cell of the inventory sheet
MaxCallbacks == 2    \* callbacks of the agent's stream in one request

\* ------------------------------------------------------------ JS values
Undefined == [kind |-> "undefined"]
Null == [kind |-> "null"]
Scalar(t) == [kind |-> "scalar", truthy |-> t]
Str(s) == [kind |-> "str", s |-> s]
Obj(o) == [kind |-> "obj", o |-> o]
Arr(a) == [kind |-> "arr", a |-> a]

\* typeof v === "object" (true of null and of arrays too)
TypeofObject(v) == v.kind \in {"obj", "arr", "null"}

\* JavaScript truthiness, as used by `!x`, `x &&` and `if (x)`
Truthy(v) ==
    CASE v.kind = "undefined" -> FALSE
      [] v.kind = "null" -> FALSE
      [] v.kind = "scalar" -> v.truthy
      [] v.kind = "str" -> v.s # <<>>
      [] v.kind = "pstr" -> v.form # "empty"
      [] OTHER -> TRUE

\* "(BOM)" is U+FEFF, which \s and trim() count as whitespace
Whitespace == {" ", "\n", "\r", "(BOM)"}

RECURSIVE TrimStart(_)
TrimStart(s) ==
    IF s # <<>> /\ Head(s) \in Whitespace THEN TrimStart(Tail(s)) ELSE s

RECURSIVE TrimEnd(_)
TrimEnd(s) ==
    IF s # <<>> /\ s[Len(s)] \in Whitespace
    THEN TrimEnd(SubSeq(s, 1, Len(s) - 1))
    ELSE s

\* String.prototype.trim
Trim(s) == TrimEnd(TrimStart(s))

\* ------------------------------------------------- objects of the payloads
EmptyObj == [k \in {} |-> 0]
RowA == [sku |-> "A", qty |-> 1]
RowB == [sku |-> "B", qty |-> 2]
RowMeta == [sku |-> "A", qty |-> 1, meta |-> 1]
Totals == [totalProducts |-> 5]
TotalsMeta == [totalProducts |-> 5, meta |-> 1]
MetaOnly == [meta |-> 1]
ErrOnly == [error |-> "boom"]
RowErr == [sku |-> "A", qty |-> 1, error |-> "boom"]
RowNoErr == [sku |-> "A", qty |-> 1, error |-> ""]

\* Object.keys(array): the indices "0", "1", ...
ArrayAsObject(a) == [k \in {ToString(i - 1) : i \in 1..Len(a)} |->
                        a[CHOOSE i \in 1..Len(a) : ToString(i - 1) = k]]

\* the own enumerable properties of a value that is typeof "object"
Props(v) == IF v.kind = "arr" THEN ArrayAsObject(v.a) ELSE v.o

\* const { meta, ...rest } = x
StripMeta(v) == [k \in DOMAIN Props(v) \ {"meta"} |-> Props(v)[k]]

\* ----------------------------------------------------------- safeParsePreview
\* A preview string is kept by what the two parsers make of it:
\*   form "empty"   the string ""
\*   form "blank"   whitespace only
\*   form "[]", "{}" exactly these two texts (after trim)
\*   form "json"    JSON.parse succeeds and gives val
\*   form "literal" JSON.parse throws, Function(...)() gives val
\*   form "garbage" both throw
PreviewStr(f, v) == [kind |-> "pstr", form |-> f, val |-> v]

safeParsePreview(preview) ==
    IF preview.kind \in {"null", "undefined"} THEN Null
    ELSE IF preview.kind \in {"obj", "arr"} THEN preview
    ELSE IF preview.kind # "pstr" THEN Null
    ELSE IF preview.form \in {"empty", "blank", "[]", "{}"} THEN Null
    ELSE IF preview.form \in {"json", "literal"} THEN preview.val
    ELSE Null

\* ------------------------------------------------------------ isSummaryObject
SUMMARY_KEYS ==
    {"totalProducts", "totalQuantity", "totalValue", "lowStockCount",
     "outOfStockCount", "executionTime", "meta", "status", "error",
     "functionsUsed"}

isSummaryObject_AnyKeys(obj) ==
    \A k \in DOMAIN Props(obj) : k \in SUMMARY_KEYS

isSummaryObject(obj) ==
    DOMAIN Props(obj) # {} /\ \A k \in DOMAIN Props(obj) : k \in SUMMARY_KEYS

\* ----------------------------------------------------------- normalizeToTable
\* the result is Null or Arr(rows)
normalizeToTable_NoFilter(p) ==
    IF p.kind \in {"null", "undefined"} THEN Null
    ELSE IF p.kind = "arr" THEN
        IF Len(p.a) = 0 THEN Null ELSE p
    ELSE IF ~TypeofObject(p) THEN Null
    ELSE IF DOMAIN StripMeta(p) = {} THEN Null
    ELSE Arr(<<Obj(StripMeta(p))>>)

normalizeToTable(p) ==
    IF p.kind \in {"null", "undefined"} THEN Null
    ELSE IF p.kind = "arr" THEN
        IF Len(p.a) = 0 THEN Null
        ELSE LET rows == SelectSeq(p.a, LAMBDA r : Truthy(r) /\ TypeofObject(r))
             IN  IF Len(rows) > 0 THEN Arr(rows) ELSE Null
    ELSE IF ~TypeofObject(p) THEN Null
    ELSE IF DOMAIN StripMeta(p) = {} THEN Null
    ELSE Arr(<<Obj(StripMeta(p))>>)

\* --------------------------------------------------------- extractTextFromJSX
\* A jsx string is a sequence of characters and tags, one element per tag.
OpenTags == {"<CardTitle>", "<CardDescription>", "<p>", "<div font-bold>"}
CloseTags == {"</CardTitle>", "</CardDescription>", "</p>", "</div>"}
Tags == OpenTags \cup CloseTags \cup {"<br/>"}
SliceLen == 30       \* t.slice(0, 30)

Min(a, b) == IF a < b THEN a ELSE b

\* the positions i..Len(s) of s that hold tok
PositionsFrom(s, i, tok) == {j \in i..Len(s) : s[j] = tok}

LeastOf(S) == CHOOSE x \in S : \A y \in S : x <= y

GreatestOf(S) == CHOOSE x \in S : \A y \in S : y <= x

\* [...s.matchAll(/<open[^>]*>([\s\S]*?)<\/close>/g)].map(m => m[1])
RECURSIVE MatchAllFrom(_, _, _, _)
MatchAllFrom(s, i, open, close) ==
    IF PositionsFrom(s, i, open) = {} THEN <<>>
    ELSE LET j == LeastOf(PositionsFrom(s, i, open))
         IN  IF PositionsFrom(s, j + 1, close) = {} THEN <<>>
             ELSE LET k == LeastOf(PositionsFrom(s, j + 1, close))
                  IN  <<SubSeq(s, j + 1, k - 1)>> \o MatchAllFrom(s, k + 1, open, close)

MatchAll(s, open, close) == MatchAllFrom(s, 1, open, close)

\* s.replace(/\s+/g, " ")
RECURSIVE CollapseWhitespace(_)
CollapseWhitespace(s) ==
    IF s = <<>> THEN <<>>
    ELSE IF Head(s) \in Whitespace
    THEN <<" ">> \o CollapseWhitespace(TrimStart(s))
    ELSE <<Head(s)>> \o CollapseWhitespace(Tail(s))

\* s.replace(/<[^>]+>/g, "").replace(/\s+/g, " ").trim()
stripTags(s) ==
    Trim(CollapseWhitespace(SelectSeq(s, LAMBDA c : c \notin Tags)))

\* jsx.replace(/<[^>]+>/g, " ").replace(/\s+/g, " ").trim()
StripAllTags(s) ==
    Trim(CollapseWhitespace([i \in 1..Len(s) |-> IF s[i] \in Tags THEN " " ELSE s[i]]))

\* l.includes(t)
Includes(l, t) ==
    \E i \in 1..(Len(l) + 1) :
        i + Len(t) - 1 <= Len(l) /\ SubSeq(l, i, i + Len(t) - 1) = t

\* subTitles.forEach((title, i) => ...)
RECURSIVE PairTitles(_, _, _)
PairTitles(subTitles, boldValues, i) ==
    IF i > Len(subTitles) THEN <<>>
    ELSE LET line == IF i <= Len(boldValues) /\ boldValues[i] # <<>>
                     THEN subTitles[i] \o <<":", " ">> \o boldValues[i]
                     ELSE subTitles[i]
         IN  <<line>> \o PairTitles(subTitles, boldValues, i + 1)

\* [...descriptions, ...paragraphs].forEach(m => ...), lines growing as it goes
RECURSIVE AddBlocks(_, _)
AddBlocks(lines, blocks) ==
    IF blocks = <<>> THEN lines
    ELSE LET t == stripTags(Head(blocks))
             seen == \E n \in 1..Len(lines) :
                        Includes(lines[n], SubSeq(t, 1, Min(SliceLen, Len(t))))
         IN  AddBlocks(IF t # <<>> /\ ~seen THEN Append(lines, t) ELSE lines,
                       Tail(blocks))

\* lines.join("\n")
RECURSIVE Join(_)
Join(lines) ==
    IF lines = <<>> THEN <<>>
    ELSE IF Len(lines) = 1 THEN lines[1]
    ELSE lines[1] \o <<"\n">> \o Join(Tail(lines))

extractTextFromJSX(jsx) ==
    LET titles == MatchAll(jsx, "<CardTitle>", "</CardTitle>")
        descriptions == MatchAll(jsx, "<CardDescription>", "</CardDescription>")
        paragraphs == MatchAll(jsx, "<p>", "</p>")
        boldDivs == MatchAll(jsx, "<div font-bold>", "</div>")
        first == IF Len(titles) > 0 THEN <<stripTags(titles[1])>> ELSE <<>>
        subTitles == IF Len(titles) > 0
                     THEN [i \in 1..(Len(titles) - 1) |-> stripTags(titles[i + 1])]
                     ELSE <<>>
        boldValues == [i \in 1..Len(boldDivs) |-> stripTags(boldDivs[i])]
        lines == AddBlocks(first \o PairTitles(subTitles, boldValues, 1),
                           descriptions \o paragraphs)
    IN  IF Len(lines) > 0 THEN Join(lines) ELSE StripAllTags(jsx)


\* -------------------------------------------------------- parseDaemoResponse
\* the texts of the source, character by character; a character outside
\* ASCII is one element named in parentheses
FoundPrefix ==
    <<"F", "o", "u", "n", "d", " ">>
ResultWord ==
    <<" ", "r", "e", "s", "u", "l", "t">>
SeeTableBelow ==
    <<".", " ", "S", "e", "e", " ", "t", "a", "b", "l", "e", " ", "b", "e",
      "l", "o", "w", ".">>
NoReadableResponse ==
    <<"(warning sign)", " ", "N", "o", " ", "r", "e", "a", "d", "a", "b",
      "l", "e", " ", "r", "e", "s", "p", "o", "n", "s", "e", " ", "r", "e",
      "c", "e", "i", "v", "e", "d", ".">>

\* the decimal digits of n, as `${n}` prints them
RECURSIVE Digits(_)
Digits(n) == IF n < 10 THEN <<ToString(n)>> ELSE Digits(n \div 10) \o <<ToString(n % 10)>>

\* a payload object: [kind |-> "payload", text, jsx, toolInteractions];
\* data?.f of anything else is undefined
Payload(t, j, ti) == [kind |-> "payload", text |-> t, jsx |-> j, toolInteractions |-> ti]
Field(d, f) == IF d.kind = "payload" THEN d[f] ELSE Undefined

\* a stored item [kind |-> "item", preview], a tool record [kind |-> "tool",
\* result] and its result [kind |-> "result", stored, result]
Item(p) == [kind |-> "item", preview |-> p]
ToolResult(s, r) == [kind |-> "result", stored |-> s, result |-> r]
Tool(r) == [kind |-> "tool", result |-> r]

ItemPreview(item) == IF item.kind = "item" THEN item.preview ELSE Undefined
ToolStored(tool) ==
    IF tool.kind = "tool" /\ tool.result.kind = "result"
    THEN tool.result.stored ELSE Undefined
ToolDirect(tool) ==
    IF tool.kind = "tool" /\ tool.result.kind = "result"
    THEN tool.result.result ELSE Undefined

\* lines 1227-1242: one stored item, table being the table retained so far
StoredItem(table, item) ==
    IF ~Truthy(ItemPreview(item)) THEN table
    ELSE LET p == safeParsePreview(ItemPreview(item))
         IN  IF p = Null THEN table
             ELSE LET normalized == normalizeToTable(p)
                  IN  IF normalized # Null /\ Len(normalized.a) > 0
                      THEN IF TypeofObject(normalized.a[1])
                              /\ ~isSummaryObject(normalized.a[1])
                           THEN normalized
                           ELSE IF table = Null THEN normalized ELSE table
                      ELSE table

\* for (const item of stored)
RECURSIVE StoredItems(_, _)
StoredItems(table, stored) ==
    IF stored = <<>> THEN table
    ELSE StoredItems(StoredItem(table, Head(stored)), Tail(stored))

\* result?.error
HasError(result) ==
    result.kind = "obj" /\ "error" \in DOMAIN result.o /\ result.o.error # ""

\* lines 1247-1253: the direct result object of one tool record
DirectResult(table, result) ==
    IF table = Null /\ Truthy(result) /\ TypeofObject(result) /\ ~HasError(result)
    THEN IF DOMAIN StripMeta(result) # {}
         THEN Arr(<<Obj(StripMeta(result))>>)
         ELSE table
    ELSE table

\* lines 1222-1254: one tool record
ToolInteraction(table, tool) ==
    LET stored == ToolStored(tool)
        afterStored == IF stored.kind = "arr" THEN StoredItems(table, stored.a)
                       ELSE table
    IN  DirectResult(afterStored, ToolDirect(tool))

\* for (const tool of data.toolInteractions)
RECURSIVE ToolInteractions(_, _)
ToolInteractions(table, tools) ==
    IF tools = <<>> THEN table
    ELSE ToolInteractions(ToolInteraction(table, Head(tools)), Tail(tools))

\* lines 1210-1217
DeriveText_JsxFirst(d) ==
    IF Field(d, "jsx").kind = "str" /\ Trim(Field(d, "jsx").s) # <<>>
    THEN extractTextFromJSX(Field(d, "jsx").s)
    ELSE IF Field(d, "text").kind = "str" /\ Trim(Field(d, "text").s) # <<>>
    THEN Trim(Field(d, "text").s)
    ELSE <<>>

DeriveText(d) ==
    IF Field(d, "text").kind = "str" /\ Trim(Field(d, "text").s) # <<>>
    THEN Trim(Field(d, "text").s)
    ELSE IF Field(d, "jsx").kind = "str" /\ Trim(Field(d, "jsx").s) # <<>>
    THEN extractTextFromJSX(Field(d, "jsx").s)
    ELSE <<>>

\* lines 1220-1255
DeriveTable(d) ==
    IF Field(d, "toolInteractions").kind = "arr"
    THEN ToolInteractions(Null, Field(d, "toolInteractions").a)
    ELSE Null

\* `Found ${table.length} result${table.length !== 1 ? "s" : ""}. See table below.`
FoundText_NoCount(n) ==
    FoundPrefix \o ResultWord \o <<"s">> \o SeeTableBelow

FoundText(n) ==
    FoundPrefix \o Digits(n) \o ResultWord
        \o (IF n # 1 THEN <<"s">> ELSE <<>>) \o SeeTableBelow

\* lines 1257-1262
FinalText_NoNotice(text, table) ==
    IF text = <<>> /\ table # Null THEN FoundText(Len(table.a))
    ELSE text

FinalText(text, table) ==
    IF text = <<>> /\ table # Null THEN FoundText(Len(table.a))
    ELSE IF text = <<>> THEN NoReadableResponse
    ELSE text

parseDaemoResponse(d) ==
    [text |-> FinalText(DeriveText(d), DeriveTable(d)), table |-> DeriveTable(d)]


\* ------------------------------------------------ extractor harness: inputs
\* the sequences over S of length at most n
BSeq(S, n) == UNION {[1..k -> S] : k \in 0..n}

TextFields ==
    {Undefined, Scalar(TRUE), Str(<<>>), Str(<<" ">>), Str(<<"a">>),
     Str(<<" ", "a", "\n">>)}

JsxTokens == {"a", " "} \cup Tags
JsxFields ==
    {Undefined, Scalar(TRUE)} \cup {Str(s) : s \in BSeq(JsxTokens, MaxJsxLen)}

ManyRows == Arr([i \in 1..10 |-> Obj(RowB)])

Previews ==
    {Undefined,
     PreviewStr("garbage", Null),
     PreviewStr("json", Obj(RowA)),
     PreviewStr("json", Obj(Totals)),
     PreviewStr("literal", Obj(ErrOnly)),
     PreviewStr("json", Arr(<<Scalar(TRUE), Null>>)),
     PreviewStr("literal", Arr(<<Null, Obj(RowB), Scalar(TRUE), Obj(RowA)>>)),
     Obj(RowMeta),
     Arr(<<Obj(Totals), Obj(RowA)>>)}

Items == {Null} \cup {Item(p) : p \in Previews}

StoredFields ==
    {Undefined, Scalar(TRUE)} \cup {Arr(items) : items \in BSeq(Items, MaxStored)}

DirectFields == {Undefined, Obj(RowB), Obj(RowErr)}

Tools ==
    {Null, Tool(Undefined)}
        \cup {Tool(ToolResult(st, r)) : st \in StoredFields, r \in DirectFields}

ToolFields == {Undefined, Scalar(TRUE)} \cup {Arr(tools) : tools \in BSeq(Tools, MaxTools)}

\* tool fields of one tool record, for the shapes left out of Previews and
\* DirectFields
StoredTool(p) == Arr(<<Tool(ToolResult(Arr(<<Item(p)>>), Undefined))>>)
DirectTool(r) == Arr(<<Tool(ToolResult(Undefined, r))>>)
TwoStoredTools(p, q) ==
    Arr(<<Tool(ToolResult(Arr(<<Item(p)>>), Undefined)),
          Tool(ToolResult(Arr(<<Item(q)>>), Undefined))>>)

ExtraToolFields ==
    {StoredTool(PreviewStr("json", Obj(RowA))),
     StoredTool(ManyRows),
     StoredTool(PreviewStr("blank", Null)),
     StoredTool(PreviewStr("empty", Null)),
     StoredTool(PreviewStr("{}", Null)),
     StoredTool(Scalar(TRUE)),
     StoredTool(Obj(MetaOnly)),
     StoredTool(Arr(<<Obj(EmptyObj)>>)),
     TwoStoredTools(Obj(RowA), Arr(<<Obj(EmptyObj)>>)),
     TwoStoredTools(Arr(<<Obj(EmptyObj), Obj(RowA)>>), Arr(<<Obj(Totals), Obj(RowA)>>)),
     StoredTool(Arr(<<Arr(<<Scalar(TRUE)>>)>>)),
     StoredTool(PreviewStr("literal", Undefined)),
     DirectTool(Obj(MetaOnly)),
     DirectTool(Obj(RowNoErr)),
     DirectTool(Obj(TotalsMeta)),
     DirectTool(Arr(<<Scalar(TRUE)>>)),
     DirectTool(Null),
     DirectTool(Scalar(TRUE))}

JsxSamples == {Undefined, Str(<<"<br/>">>), Str(<<"<p>", "a", "</p>">>)}

\* text and jsx in full without tools, text against the extra tool fields,
\* the tool fields in full with and without a text, and two payloads that
\* are not objects
ParsePayloads ==
    {Payload(t, j, Undefined) : t \in TextFields, j \in JsxFields}
        \cup {Payload(t, j, ti) : t \in TextFields, j \in JsxSamples, ti \in ExtraToolFields}
        \cup {Payload(t, Undefined, ti) : t \in {Undefined, Str(<<"a">>)}, ti \in ToolFields}
        \cup {Null, Scalar(TRUE)}

\* ------------------------------------------------------------------ parseCSV
\* csvText.split("\n")
RECURSIVE SplitLines(_)
SplitLines(text) ==
    IF \A i \in 1..Len(text) : text[i] # "\n" THEN <<text>>
    ELSE LET n == LeastOf({i \in 1..Len(text) : text[i] = "\n"})
         IN  <<SubSeq(text, 1, n - 1)>> \o SplitLines(SubSeq(text, n + 1, Len(text)))

\* the scan of one line (lines 1270-1286): values are the fields closed so
\* far, current the field being read
\* char === "," && !inQuotes
Splits_Always(char, inQuotes) == char = ","

Splits(char, inQuotes) == char = "," /\ ~inQuotes

RECURSIVE ScanRow(_, _, _, _)
ScanRow(row, values, current, inQuotes) ==
    IF row = <<>> THEN Append(values, Trim(current))
    ELSE IF Head(row) = "\""
    THEN ScanRow(Tail(row), values, current, ~inQuotes)
    ELSE IF Splits(Head(row), inQuotes)
    THEN ScanRow(Tail(row), Append(values, Trim(current)), <<>>, inQuotes)
    ELSE ScanRow(Tail(row), values, Append(current, Head(row)), inQuotes)

ParseRow(row) == ScanRow(row, <<>>, <<>>, FALSE)

\* h.replace(/^\uFEFF/, "").trim()
StripBom(h) == Trim(IF h # <<>> /\ Head(h) = "(BOM)" THEN Tail(h) ELSE h)

\* headers.forEach((header, index) => { obj[header] = row[index] ?? "" }):
\* a later column of the same name overwrites an earlier one
RowObject_Omitting(headers, row) ==
    [h \in {headers[i] : i \in 1..Min(Len(headers), Len(row))} |->
        row[GreatestOf({i \in 1..Min(Len(headers), Len(row)) : headers[i] = h})]]

RowObject(headers, row) ==
    [h \in {headers[i] : i \in 1..Len(headers)} |->
        LET last == GreatestOf({i \in 1..Len(headers) : headers[i] = h})
        IN  IF last <= Len(row) THEN row[last] ELSE <<>>]

\* row.some(cell => cell.trim())
SomeCell(row) == \E i \in 1..Len(row) : Trim(row[i]) # <<>>

\* the result is the sequence of row objects
parseCSV(text) ==
    LET rows == [i \in 1..Len(SplitLines(text)) |-> ParseRow(SplitLines(text)[i])]
        headers == [i \in 1..Len(rows[1]) |-> StripBom(rows[1][i])]
        kept == SelectSeq(Tail(rows), SomeCell)
    IN  IF Len(rows) < 2 THEN <<>>
        ELSE [i \in 1..Len(kept) |-> RowObject(headers, kept[i])]

\* ---------------------------------------------------- CSV harness: inputs
CsvChars == {"a", "b", ",", "\"", " ", "\n"}

QuotedExample ==
    <<"s", "k", "u", ",", "n", "a", "m", "e", "\n", "\"", "A", ",", "1", "\"", ",", "\"", "W",
     "i", "d", "g", "e", "t", ",", " ", "I", "n", "c", "\"">>

CsvSamples ==
    {QuotedExample,
     <<"(BOM)", "a", ",", "b", "\r", "\n", "a", ",", " ", "b", " ", ",", "a", "\r", "\n",
       ",", "\r", "\n", "\"", "a", ",", "\"", "\"", "b", "\"", "\r", "\n">>,
     <<"a", ",", "a", ",", "b", "\n", "a", ",", "b", ",", "a", ",", "b", "\n", "b">>}

CsvTexts == BSeq(CsvChars, MaxCsvLen) \cup CsvSamples

\* -------------------------------------------------------- InventoryService
\* A cell of the sheet is a string: NumCell(n) is one that parseInt and
\* parseFloat read as the number n, TextCell(t) one they read as NaN; a
\* cell the values API left out of a short row is Undefined.
NumCell(n) == [kind |-> "numcell", n |-> n]

TextCell(t) == [kind |-> "textcell", t |-> t]

HeaderRow ==
    <<TextCell("SKU"), TextCell("Product Name"), TextCell("Category"),
      TextCell("Quantity"), TextCell("Price"), TextCell("Reorder Point")>>

\* row[i] of a row that may be shorter than i
CellAt(row, i) == IF i <= Len(row) THEN row[i] ELSE Undefined

\* x || ""
OrEmpty(cell) == IF cell = Undefined \/ cell = TextCell("") THEN TextCell("") ELSE cell

\* parseInt(x) || 0 and parseFloat(x) || 0: NaN and 0 both give 0
ParseOrZero(cell) == IF cell.kind = "numcell" THEN cell.n ELSE 0

rowToItem(row, index) ==
    [sku |-> OrEmpty(CellAt(row, 1)),
     productName |-> OrEmpty(CellAt(row, 2)),
     category |-> OrEmpty(CellAt(row, 3)),
     quantity |-> ParseOrZero(CellAt(row, 4)),
     price |-> ParseOrZero(CellAt(row, 5)),
     reorderPoint |-> ParseOrZero(CellAt(row, 6)),
     rowIndex |-> index]

cleanItem(item) ==
    [sku |-> item.sku, productName |-> item.productName, category |-> item.category,
     quantity |-> item.quantity, price |-> item.price, reorderPoint |-> item.reorderPoint]

\* the filter of getLowStockItems
IsLowStock(r) == ParseOrZero(CellAt(r, 4)) <= ParseOrZero(CellAt(r, 6))

LowStockItems(sheet) ==
    LET kept == SelectSeq(Tail(sheet), IsLowStock)
    IN  [i \in 1..Len(kept) |-> cleanItem(rowToItem(kept[i], i + 1))]

\* ------------------------------------------------ inventory harness: inputs
SkuOf(i) == TextCell("SKU-" \o ToString(i))

NumberCells == {NumCell(n) : n \in 0..MaxQty} \cup {TextCell("n/a"), TextCell("")}

\* a data row, complete or cut short after the price by the values API
DataRows(i) ==
    {<<SkuOf(i), TextCell("Widget"), TextCell("Tools"), q, NumCell(1), rp>> :
        q \in NumberCells, rp \in NumberCells}
    \cup {<<SkuOf(i), TextCell("Widget"), TextCell("Tools"), q, NumCell(1)>> : q \in NumberCells}

RECURSIVE SheetsOf(_)
SheetsOf(n) ==
    IF n = 0 THEN {<<HeaderRow>>}
    ELSE SheetsOf(n - 1) \cup
         {Append(sheet, r) : sheet \in {x \in SheetsOf(n - 1) : Len(x) = n}, r \in DataRows(n)}

Sheets == SheetsOf(MaxRows)

\* ------------------------------------------- InventoryService: the writers
\* the tool calls the agent may have running at once
StockCalls == {"first", "second"}

NoCall ==
    [op |-> "none", sku |-> Undefined, amount |-> 0, pc |-> "idle",
     index |-> 0, value |-> 0, success |-> FALSE, message |-> ""]

\* rows.findIndex((r, i) => i > 0 && r[0] === sku) as a position of the
\* sequence, which is index + 1 and the number of the sheet row; 0 for -1
FindIndex(rows, sku) ==
    LET hits == {p \in 2..Len(rows) : CellAt(rows[p], 1) = sku}
    IN  IF hits = {} THEN 0 ELSE CHOOSE p \in hits : \A q \in hits : p <= q

\* the sheet row after a value is written to its i-th cell
SetCell(row, i, cell) ==
    [k \in 1..(IF Len(row) < i THEN i ELSE Len(row)) |->
        IF k = i THEN cell ELSE IF k <= Len(row) THEN row[k] ELSE TextCell("")]

\* modifyStockQuantity up to `await sheets.spreadsheets.values.update`,
\* without the test `updated < 0`
modifyStockQuantity_NoFloor(c, sku, amount) ==
    /\ stockCalls[c].pc = "idle"
    /\ LET rows == sheetRows
           index == FindIndex(rows, sku)
           current == IF index = 0 THEN 0 ELSE ParseOrZero(CellAt(rows[index], 4))
           updated == current + amount
           call == [NoCall EXCEPT !.op = "modify", !.sku = sku, !.amount = amount]
       IN  stockCalls' = [stockCalls EXCEPT ![c] =
               IF index = 0
               THEN [call EXCEPT !.pc = "done", !.message = "SKU not found"]
               ELSE [call EXCEPT !.pc = "update", !.index = index, !.value = updated]]
    /\ UNCHANGED <<chatVars, parseVars, daemoVars, csvVars, streamVars, appVars,
                   sheetRows, lowStock, sheetWrites, sheetAtStart>>

\* modifyStockQuantity up to `await sheets.spreadsheets.values.update`:
\* the rows of getSheet, the search, the sum and the two early returns
modifyStockQuantity(c, sku, amount) ==
    /\ stockCalls[c].pc = "idle"
    /\ LET rows == sheetRows
           index == FindIndex(rows, sku)
           current == IF index = 0 THEN 0 ELSE ParseOrZero(CellAt(rows[index], 4))
           updated == current + amount
           call == [NoCall EXCEPT !.op = "modify", !.sku = sku, !.amount = amount]
       IN  stockCalls' = [stockCalls EXCEPT ![c] =
               IF index = 0
               THEN [call EXCEPT !.pc = "done", !.message = "SKU not found"]
               ELSE IF updated < 0
               THEN [call EXCEPT !.pc = "done", !.message = "Not enough stock"]
               ELSE [call EXCEPT !.pc = "update", !.index = index, !.value = updated]]
    /\ UNCHANGED <<chatVars, parseVars, daemoVars, csvVars, streamVars, appVars,
                   sheetRows, lowStock, sheetWrites, sheetAtStart>>

\* the update of range Inventory!D{index + 1} reaches the sheet and the
\* call returns { success: true, message: "Stock updated", newQuantity }
ValuesUpdate(c) ==
    /\ stockCalls[c].pc = "update"
    /\ LET call == stockCalls[c]
       IN  /\ sheetRows' = [sheetRows EXCEPT ![call.index] = SetCell(@, 4, NumCell(call.value))]
           /\ sheetWrites' = Append(sheetWrites,
                  [by |-> c, request |-> "update", row |-> call.index, column |-> 4,
                   values |-> <<NumCell(call.value)>>])
           /\ stockCalls' = [stockCalls EXCEPT ![c] =
                  [call EXCEPT !.pc = "done", !.success = TRUE, !.message = "Stock updated"]]
    /\ UNCHANGED <<chatVars, parseVars, daemoVars, csvVars, streamVars, appVars,
                   lowStock, sheetAtStart>>

\* the row addNewProduct appends; all but the SKU is the same in every call
NewRow(sku) ==
    <<sku, TextCell("Gadget"), TextCell("Tools"), NumCell(1), NumCell(1), NumCell(1)>>

\* addNewProduct up to `await sheets.spreadsheets.values.append`
addNewProduct(c, sku) ==
    /\ stockCalls[c].pc = "idle"
    /\ LET rows == sheetRows
           call == [NoCall EXCEPT !.op = "add", !.sku = sku]
       IN  stockCalls' = [stockCalls EXCEPT ![c] =
               IF \E p \in 2..Len(rows) : CellAt(rows[p], 1) = sku
               THEN [call EXCEPT !.pc = "done", !.message = "SKU already exists"]
               ELSE [call EXCEPT !.pc = "append"]]
    /\ UNCHANGED <<chatVars, parseVars, daemoVars, csvVars, streamVars, appVars,
                   sheetRows, lowStock, sheetWrites, sheetAtStart>>

\* the append to Inventory!A:F reaches the sheet and the call returns
\* { success: true, message: "Product added" }
ValuesAppend(c) ==
    /\ stockCalls[c].pc = "append"
    /\ LET call == stockCalls[c]
       IN  /\ sheetRows' = Append(sheetRows, NewRow(call.sku))
           /\ sheetWrites' = Append(sheetWrites,
                  [by |-> c, request |-> "append", row |-> Len(sheetRows) + 1, column |-> 1,
                   values |-> NewRow(call.sku)])
           /\ stockCalls' = [stockCalls EXCEPT ![c] =
                  [call EXCEPT !.pc = "done", !.success = TRUE, !.message = "Product added"]]
    /\ UNCHANGED <<chatVars, parseVars, daemoVars, csvVars, streamVars, appVars,
                   lowStock, sheetAtStart>>

\* sheets whose rows are complete, the first with any quantity cell
StockSheets ==
    {sheet \in Sheets : \A p \in 2..Len(sheet) :
        /\ Len(sheet[p]) = 6
        /\ sheet[p][6] = NumCell(1)
        /\ p > 2 => sheet[p][4] = NumCell(1)}

\* the SKUs a call may name: those of the rows and one no sheet has
StockSkus == {SkuOf(i) : i \in 1..MaxRows} \cup {TextCell("SKU-NEW")}

Amounts == {0 - MaxQty, 0 - 1, 1}

InvIdle ==
    /\ sheetRows = <<>>
    /\ lowStock = Undefined
    /\ stockCalls = [c \in StockCalls |-> NoCall]
    /\ sheetWrites = <<>>
    /\ sheetAtStart = <<>>

\* ------------------------------------------------- the streaming endpoint
\* A body is a sequence of elements: a character, or one of the pieces of
\* a JSON text that JSON.stringify writes around a string value. The one
\* character outside ASCII is "(e acute)", two bytes in UTF-8.
JsonEmpty == "{}"
JsonTextOpen == "{\"text\":\""
JsonErrorOpen == "{\"error\":\""
JsonClose == "\"}"
JsonPieces == {JsonEmpty, JsonTextOpen, JsonErrorOpen, JsonClose}

\* JSON.stringify of the objects of the model: {}, {text: t}, {error: m}
Stringify(d) ==
    IF DOMAIN d = {"text"} THEN <<JsonTextOpen>> \o d.text \o <<JsonClose>>
    ELSE IF DOMAIN d = {"error"} THEN <<JsonErrorOpen>> \o d.error \o <<JsonClose>>
    ELSE <<JsonEmpty>>

\* the characters a JSON string value can hold unescaped
PlainString(t) == \A i \in 1..Len(t) : t[i] \notin JsonPieces \cup {"\n", "\""}

\* JSON.parse: the object a text denotes, Undefined when it throws
JsonParse(text) ==
    LET t == Trim(text)
        inner == SubSeq(t, 2, Len(t) - 1)
    IN  IF t = <<JsonEmpty>> THEN EmptyObj
        ELSE IF Len(t) >= 2 /\ t[Len(t)] = JsonClose /\ PlainString(inner)
        THEN IF t[1] = JsonTextOpen THEN [text |-> inner]
             ELSE IF t[1] = JsonErrorOpen THEN [error |-> inner]
             ELSE Undefined
        ELSE Undefined

QueryRequired == <<"Q", "u", "e", "r", "y", " ", "r", "e", "q", "u", "i", "r", "e", "d">>
AgentNotInitialized == <<"A", "g", "e", "n", "t", " ", "n", "o", "t", " ", "i", "n", "i", "t", "i", "a", "l", "i", "z", "e", "d">>
DataPrefix == <<"d", "a", "t", "a", ":", " ">>
EventError == <<"e", "v", "e", "n", "t", ":", " ", "e", "r", "r", "o", "r">>
EventEnd == <<"e", "v", "e", "n", "t", ":", " ", "e", "n", "d">>

NoResponse ==
    [status |-> 0, body |-> <<>>, ended |-> FALSE, aborted |-> FALSE,
     endCalls |-> 0, writesAfterEnd |-> 0]

\* res.status(n).json(obj)
SendJson(n, obj) ==
    [status |-> n, body |-> Stringify(obj), ended |-> TRUE, aborted |-> FALSE,
     endCalls |-> 1, writesAfterEnd |-> 0]

\* res.write(s): nothing is written once the response has ended; the
\* call is then an error of the response (write after end)
Write(r, s) ==
    IF r.ended THEN [r EXCEPT !.writesAfterEnd = @ + 1] ELSE [r EXCEPT !.body = @ \o s]

\* res.end()
End(r) == [r EXCEPT !.ended = TRUE, !.endCalls = @ + 1]

NoRequestYet == [from |-> "none", query |-> <<>>]

\* the handler up to the call of client.processQueryStreamed
processQueryStreamed(session) ==
    /\ req.from # "none" /\ res = NoResponse /\ stream = "none"
    /\ IF req.query = <<>>
       THEN res' = SendJson(400, [error |-> QueryRequired]) /\ stream' = stream
       ELSE IF ~session
       THEN res' = SendJson(500, [error |-> AgentNotInitialized]) /\ stream' = stream
       ELSE res' = [NoResponse EXCEPT !.status = 200] /\ stream' = "open"
    /\ UNCHANGED <<chatVars, parseVars, daemoVars, csvVars, invVars, appVars, req, calls, net>>

\* a callback of the agent's stream: it is made while the stream is open
\* and changes nothing but the response
Called ==
    /\ stream = "open" /\ Len(calls) < MaxCallbacks
    /\ UNCHANGED <<chatVars, parseVars, daemoVars, csvVars, invVars, appVars, req, stream, net>>

\* onData(data) { res.write(`data: ${JSON.stringify(data)}\n\n`) }
DataFrame_Bare(d) == Stringify(d) \o <<"\n", "\n">>

DataFrame(d) == DataPrefix \o Stringify(d) \o <<"\n", "\n">>

onData(d) ==
    /\ Called
    /\ calls' = Append(calls, DataFrame(d))
    /\ res' = Write(res, DataFrame(d))

\* onError(error) { res.write(`event: error\ndata: ${error.message}\n\n`); res.end() }
ErrorFrame(message) == EventError \o <<"\n">> \o DataPrefix \o message \o <<"\n", "\n">>

onError(message) ==
    /\ Called
    /\ calls' = Append(calls, ErrorFrame(message))
    /\ res' = End(Write(res, ErrorFrame(message)))

\* onEnd() { res.write(`event: end\ndata: {}\n\n`); res.end() }
EndFrame == EventEnd \o <<"\n">> \o DataPrefix \o <<JsonEmpty, "\n", "\n">>

onEnd ==
    /\ Called
    /\ calls' = Append(calls, EndFrame)
    /\ res' = End(Write(res, EndFrame))

\* res.on("close", () => stream.cancel()): the connection is gone, after
\* the end of the response or before it
onClose ==
    /\ stream = "open"
    /\ stream' = "cancelled"
    /\ res' = [res EXCEPT !.ended = TRUE, !.aborted = ~res.ended]
    /\ UNCHANGED <<chatVars, parseVars, daemoVars, csvVars, invVars, appVars, req, calls, net>>

\* ------------------------------------------ the client of the streaming endpoint
\* the UTF-8 bytes of a body
RECURSIVE Utf8(_)
Utf8(text) ==
    IF text = <<>> THEN <<>>
    ELSE (IF Head(text) = "(e acute)" THEN <<"(C3)", "(A9)">> ELSE <<Head(text)>>) \o Utf8(Tail(text))

\* the text of a byte sequence: a lead byte without its continuation byte,
\* and a continuation byte without its lead byte, read as U+FFFD
RECURSIVE Utf8Decode(_)
Utf8Decode(bytes) ==
    IF bytes = <<>> THEN <<>>
    ELSE IF Head(bytes) = "(C3)" /\ Len(bytes) >= 2 /\ bytes[2] = "(A9)"
    THEN <<"(e acute)">> \o Utf8Decode(Tail(Tail(bytes)))
    ELSE IF Head(bytes) \in {"(C3)", "(A9)"}
    THEN <<"(U+FFFD)">> \o Utf8Decode(Tail(bytes))
    ELSE <<Head(bytes)>> \o Utf8Decode(Tail(bytes))

\* await res.text(): the chunks are put together as bytes and the whole is
\* decoded once the body is complete
Received_PerChunk(bytes, chunk) == bytes \o Utf8Decode(chunk)

Received(bytes, chunk) == bytes \o chunk

NoRead == [taken |-> 0, bytes |-> <<>>, split |-> FALSE, rawText |-> <<>>]

UnableToProcess == "Unable to process server response. Please try again."
NoReadableAssistant == "No readable response received from the assistant."
ConnectionError == "Connection error. Please check your network and try again."

Content(type, d) == [type |-> type, data |-> d]

\* parseDaemoResponse of this client, on the objects the endpoint can send
\* as a whole body: they carry neither jsx nor toolInteractions
StreamContents(d) ==
    IF "text" \in DOMAIN d /\ d.text # <<>> THEN <<Content("text", d.text)>>
    ELSE <<Content("error", NoReadableAssistant)>>

\* data = JSON.parse(rawText), then parseDaemoResponse(data); the message
\* of the inner catch when JSON.parse throws
BotContents(rawText) ==
    IF JsonParse(rawText) = Undefined THEN <<Content("error", UnableToProcess)>>
    ELSE StreamContents(JsonParse(rawText))

StreamMessage(role, content) == [role |-> role, content |-> content]

\* sendMessage up to the fetch
streamSendMessage ==
    /\ Trim(input) # <<>> /\ ~loading
    /\ req = NoRequestYet
    /\ messages' = Append(messages, StreamMessage("user", <<Content("text", input)>>))
    /\ input' = <<>>
    /\ loading' = TRUE
    /\ req' = [from |-> "app", query |-> input]
    /\ UNCHANGED <<inflight, nextId, sendLog, parseVars, daemoVars, csvVars, invVars, appVars, res, stream, calls, net>>

\* a request of another client of the endpoint
Post(query) ==
    /\ req = NoRequestYet
    /\ req' = [from |-> "other", query |-> query]
    /\ UNCHANGED <<chatVars, parseVars, daemoVars, csvVars, invVars, appVars, res, stream, calls, net>>

\* the next n bytes of the body reach the client as one chunk
Chunk(n) ==
    /\ req.from = "app" /\ loading
    /\ n >= 1 /\ net.taken + n <= Len(Utf8(res.body))
    /\ net' = [net EXCEPT
                  !.taken = @ + n,
                  !.bytes = Received(@, SubSeq(Utf8(res.body), net.taken + 1, net.taken + n)),
                  !.split = @ \/ Utf8(res.body)[net.taken + n] = "(C3)"]
    /\ UNCHANGED <<chatVars, parseVars, daemoVars, csvVars, invVars, appVars, req, res, stream, calls>>

\* res.text() resolves: JSON.parse(rawText), then the bot message
ReadBody ==
    /\ req.from = "app" /\ loading
    /\ res.ended /\ ~res.aborted /\ net.taken = Len(Utf8(res.body))
    /\ net' = [net EXCEPT !.rawText = Utf8Decode(net.bytes)]
    /\ messages' = Append(messages, StreamMessage("bot", BotContents(net'.rawText)))
    /\ loading' = FALSE
    /\ UNCHANGED <<input, inflight, nextId, sendLog, parseVars, daemoVars, csvVars, invVars, appVars,
                   req, res, stream, calls>>

\* fetch or res.text() rejects: the connection went before the body ended
ReadFails ==
    /\ req.from = "app" /\ loading
    /\ res.aborted
    /\ messages' = Append(messages, StreamMessage("bot", <<Content("error", ConnectionError)>>))
    /\ loading' = FALSE
    /\ UNCHANGED <<input, inflight, nextId, sendLog, parseVars, daemoVars, csvVars, invVars, appVars, streamVars>>

\* ---------------------------------------------------- stream harness: inputs
StreamData == {[text |-> <<"a">>], [text |-> <<"(e acute)">>]}

ErrorMessages == {<<"(e acute)">>, <<"a", "\n", "b">>}

Queries == {<<>>, <<"h", "i">>}

\* what the user types here; the text box is disabled while loading
StreamInputs == {<<" ">>, <<"b">>}

StreamIdle ==
    /\ req = NoRequestYet
    /\ res = NoResponse
    /\ stream = "none"
    /\ calls = <<>>
    /\ net = NoRead

\* ------------------------------------------------------------ daemoService
Session == [kind |-> "session"]
Connection == [kind |-> "connection"]

\* the callers of initDaemo: main() of index.ts, the ensureDaemo
\* middleware, the health route and the keep-alive timer; none passes force
Callers == {"main", "ensureDaemo", "health", "keepAlive"}

NoOutcome == [called |-> FALSE, threw |-> FALSE, session |-> Null, reply |-> "none"]

DaemoIdle ==
    /\ sessionData = Null
    /\ connection = Null
    /\ connecting = FALSE
    /\ daemoPc = [c \in Callers |-> "idle"]
    /\ initResult = [c \in Callers |-> NoOutcome]

\* what the caller does when `await initDaemo()` has returned: ensureDaemo
\* calls next(), and processQuery answers by getSessionData(); the health
\* route answers "connected"
Returned(c, session) ==
    [called |-> TRUE, threw |-> FALSE, session |-> session,
     reply |-> IF c = "ensureDaemo"
               THEN IF session = Null THEN "Agent not initialized" ELSE "query processed"
               ELSE IF c = "health" THEN "connected" ELSE "none"]

\* what the caller does when `await initDaemo()` has thrown
Threw(c) ==
    [called |-> TRUE, threw |-> TRUE, session |-> Null,
     reply |-> IF c = "ensureDaemo" THEN "Daemo engine failed to initialize"
               ELSE IF c = "health" THEN "disconnected" ELSE "none"]

\* initDaemo(force) up to `await connection.start()`: it returns at once
\* while an attempt is in progress or a connection exists
initDaemo_NoConnection(c, force) ==
    /\ daemoPc[c] = "idle"
    /\ IF connecting \/ (connection # Null /\ ~force)
       THEN /\ initResult' = [initResult EXCEPT ![c] = Returned(c, sessionData)]
            /\ UNCHANGED <<sessionData, connection, connecting, daemoPc>>
       ELSE /\ connecting' = TRUE
            /\ sessionData' = IF force THEN Null ELSE sessionData
            /\ connection' = connection
            /\ daemoPc' = [daemoPc EXCEPT ![c] = "start"]
            /\ initResult' = initResult
    /\ UNCHANGED <<chatVars, parseVars, csvVars, invVars, streamVars, appVars>>

initDaemo(c, force) ==
    /\ daemoPc[c] = "idle"
    /\ IF connecting \/ (connection # Null /\ ~force)
       THEN /\ initResult' = [initResult EXCEPT ![c] = Returned(c, sessionData)]
            /\ UNCHANGED <<sessionData, connection, connecting, daemoPc>>
       ELSE /\ connecting' = TRUE
            /\ sessionData' = IF force THEN Null ELSE sessionData
            /\ connection' = Connection
            /\ daemoPc' = [daemoPc EXCEPT ![c] = "start"]
            /\ initResult' = initResult
    /\ UNCHANGED <<chatVars, parseVars, csvVars, invVars, streamVars, appVars>>

\* connection.start() resolves: sessionData = session, finally connecting = false
StartResolves(c) ==
    /\ daemoPc[c] = "start"
    /\ sessionData' = Session
    /\ connecting' = FALSE
    /\ daemoPc' = [daemoPc EXCEPT ![c] = "idle"]
    /\ initResult' = [initResult EXCEPT ![c] = Returned(c, Session)]
    /\ UNCHANGED <<connection, chatVars, parseVars, csvVars, invVars, streamVars, appVars>>

\* connection.start() rejects: resetDaemo(), throw err, finally connecting =
\* false; the catch block of the caller (resetDaemo() again in the health
\* route and the timer) runs before any other caller can
StartRejects_NoFinally(c) ==
    /\ daemoPc[c] = "start"
    /\ connection' = Null
    /\ sessionData' = Null
    /\ connecting' = connecting
    /\ daemoPc' = [daemoPc EXCEPT ![c] = "idle"]
    /\ initResult' = [initResult EXCEPT ![c] = Threw(c)]
    /\ UNCHANGED <<chatVars, parseVars, csvVars, invVars, streamVars, appVars>>

StartRejects(c) ==
    /\ daemoPc[c] = "start"
    /\ connection' = Null
    /\ sessionData' = Null
    /\ connecting' = FALSE
    /\ daemoPc' = [daemoPc EXCEPT ![c] = "idle"]
    /\ initResult' = [initResult EXCEPT ![c] = Threw(c)]
    /\ UNCHANGED <<chatVars, parseVars, csvVars, invVars, streamVars, appVars>>

\* ---------------------------------------------------------- the chat client
\* the texts of sendMessage
TimeoutText ==
    <<"(stopwatch)", " ", "R", "e", "q", "u", "e", "s", "t", " ", "t", "i",
      "m", "e", "d", " ", "o", "u", "t", ".", " ", "T", "h", "e", " ", "s",
      "e", "r", "v", "e", "r", " ", "m", "a", "y", " ", "b", "e", " ", "s",
      "t", "a", "r", "t", "i", "n", "g", " ", "u", "p", " ", "(em dash)",
      " ", "p", "l", "e", "a", "s", "e", " ", "t", "r", "y", " ", "a", "g",
      "a", "i", "n", ".">>
ErrorPrefix ==
    <<"E", "r", "r", "o", "r", ":", " ">>
ConnectionErrorText ==
    <<"C", "o", "n", "n", "e", "c", "t", "i", "o", "n", " ", "e", "r", "r",
      "o", "r", ".", " ", "P", "l", "e", "a", "s", "e", " ", "c", "h", "e",
      "c", "k", " ", "y", "o", "u", "r", " ", "n", "e", "t", "w", "o", "r",
      "k", " ", "a", "n", "d", " ", "t", "r", "y", " ", "a", "g", "a", "i",
      "n", ".">>
StatusPrefix ==
    <<"S", "e", "r", "v", "e", "r", " ", "r", "e", "s", "p", "o", "n", "d",
      "e", "d", " ", "w", "i", "t", "h", " ", "s", "t", "a", "t", "u", "s",
      " ">>
InvalidJsonText ==
    <<"I", "n", "v", "a", "l", "i", "d", " ", "J", "S", "O", "N", " ", "r",
      "e", "s", "p", "o", "n", "s", "e", " ", "f", "r", "o", "m", " ", "s",
      "e", "r", "v", "e", "r">>
FailedToFetch ==
    <<"F", "a", "i", "l", "e", "d", " ", "t", "o", " ", "f", "e", "t", "c",
      "h">>

\* an error object [name, message]
Err(n, m) == [name |-> n, message |-> m]

\* what fetch() and res.text() can reject with: a network failure, the
\* AbortSignal.timeout(30000) signal firing, and an abort of the request
Rejections ==
    {Err("TypeError", FailedToFetch), Err("TypeError", <<>>),
     Err("TimeoutError", <<"t">>), Err("AbortError", <<"t">>)}

\* the non-success statuses of the response
Statuses == {500}

\* the response body: NotJson makes JSON.parse throw, Json(d) parses to d
NotJson == [kind |-> "notjson"]
Json(d) == [kind |-> "json", data |-> d]

ChatPayloads ==
    {Null,
     Payload(Undefined, Undefined, Undefined),
     Payload(Str(<<" ">>), Str(<<"<br/>">>), StoredTool(PreviewStr("garbage", Null))),
     Payload(Str(<<"a">>), Undefined, Undefined),
     Payload(Undefined, Undefined, StoredTool(PreviewStr("json", Obj(RowA))))}

\* what the user can type into the text box
Inputs == {<<>>, <<" ">>, <<" ", "a">>, <<"b">>}

\* a sendMessage invocation suspended at an await: the sendLog entry of the
\* call and the await it is at ("fetch": await fetch(...), "body": await
\* res.text())
Request(c, p) == [call |-> c, pc |-> p]
NoRequest == {}
Pending == [kind |-> "pending"]

\* a Message; timestamp is left out
Message(i, r, t, tb, st) == [id |-> i, role |-> r, text |-> t, table |-> tb, status |-> st]

ChatInit ==
    /\ messages = <<>>
    /\ input = <<>>
    /\ loading = FALSE
    /\ inflight = NoRequest
    /\ nextId = 0
    /\ sendLog = <<>>

\* the state of the rest of the component after construction
AppIdle ==
    /\ expandedTables = {}
    /\ serverStatus = "idle"
    /\ sheetData = <<>>
    /\ sheetLoading = FALSE
    /\ sheetError = Null

\* the harness variables at rest
CsvIdle == csvText = <<>> /\ csvParsed = Undefined

Init ==
    /\ ChatInit
    /\ data = Undefined
    /\ parsed = Undefined
    /\ CsvIdle
    /\ InvIdle
    /\ StreamIdle
    /\ AppIdle
    /\ DaemoIdle

\* onChange={e => setInput(e.target.value)}
SetInput(v) ==
    /\ input # v
    /\ input' = v
    /\ UNCHANGED <<messages, loading, inflight, nextId, sendLog, data, parsed, restVars>>

\* if (!query || loading) return;
EarlyReturn_NoLoading(query, isLoading) == query = <<>>

EarlyReturn(query, isLoading) == query = <<>> \/ isLoading

\* sendMessage up to its first await (lines 1380-1406).  A call with a blank
\* query changes nothing; every other call is entered in sendLog.
sendMessage ==
    LET query == Trim(input)
        entry(st) == [query |-> query, whileOpen |-> inflight # NoRequest,
                      started |-> st, outcome |-> Pending, bot |-> 0]
    IN  /\ Len(sendLog) < MaxCalls
        /\ IF EarlyReturn(query, loading)
           THEN /\ sendLog' = IF query = <<>> THEN sendLog
                              ELSE Append(sendLog, entry(FALSE))
                /\ UNCHANGED <<messages, input, loading, inflight, nextId>>
           ELSE /\ messages' = Append(messages,
                                      Message(nextId + 1, "user", query, Undefined, Undefined))
                /\ nextId' = nextId + 1
                /\ input' = <<>>
                /\ loading' = TRUE
                /\ inflight' = inflight \cup {Request(Len(sendLog) + 1, "fetch")}
                /\ sendLog' = Append(sendLog, entry(TRUE))
        /\ UNCHANGED <<data, parsed, restVars>>

\* const isTimeout = err?.name === "TimeoutError" || err?.name === "AbortError"
isTimeout_NoAbort(err) == err.name = "TimeoutError"

isTimeout(err) == err.name = "TimeoutError" \/ err.name = "AbortError"

\* the text of the error message (lines 1438-1442)
ErrorText_Generic(err) == ConnectionErrorText

ErrorText(err) ==
    IF isTimeout(err) THEN TimeoutText
    ELSE IF err.message # <<>> THEN ErrorPrefix \o err.message
    ELSE ConnectionErrorText

\* the message of the catch block (lines 1435-1445): no table field
ErrorMessage(id, err) == Message(id, "bot", ErrorText(err), Undefined, "error")

\* the message of the try block (lines 1421-1430)
BotMessage(id, d) ==
    Message(id, "bot", parseDaemoResponse(d).text, parseDaemoResponse(d).table, "ok")

\* the end of an invocation: setMessages(prev => [...prev, botMsg]) and the
\* finally block, with the outcome entered in sendLog
Finish_NoFinally(r, outcome, botMsg) ==
    /\ messages' = Append(messages, botMsg)
    /\ nextId' = nextId + 1
    /\ loading' = loading
    /\ inflight' = inflight \ {r}
    /\ sendLog' = [sendLog EXCEPT ![r.call].outcome = outcome, ![r.call].bot = botMsg.id]
    /\ UNCHANGED <<input, data, parsed, restVars>>

Finish(r, outcome, botMsg) ==
    /\ messages' = Append(messages, botMsg)
    /\ nextId' = nextId + 1
    /\ loading' = FALSE
    /\ inflight' = inflight \ {r}
    /\ sendLog' = [sendLog EXCEPT ![r.call].outcome = outcome, ![r.call].bot = botMsg.id]
    /\ UNCHANGED <<input, data, parsed, restVars>>

\* catch (err) { ... } finally { setLoading(false) }
Catch(r, outcome, err) == Finish(r, outcome, ErrorMessage(nextId + 1, err))

\* await fetch(...) resolves with res.ok
FetchOk(r) ==
    /\ r \in inflight /\ r.pc = "fetch"
    /\ inflight' = (inflight \ {r}) \cup {Request(r.call, "body")}
    /\ UNCHANGED <<messages, input, loading, nextId, sendLog, data, parsed, restVars>>

\* await fetch(...) resolves with !res.ok: throw new Error(`Server responded
\* with status ${res.status}`)
FetchStatus(r, status) ==
    /\ r \in inflight /\ r.pc = "fetch"
    /\ Catch(r, [kind |-> "status", status |-> status],
             Err("Error", StatusPrefix \o Digits(status)))

\* await fetch(...) or await res.text() rejects with err
Reject(r, err) ==
    /\ r \in inflight
    /\ Catch(r, [kind |-> "reject", err |-> err, at |-> r.pc], err)

\* await res.text() resolves with a body that is not JSON: throw new
\* Error("Invalid JSON response from server")
BodyNotJson_NoMessage(r) ==
    /\ r \in inflight /\ r.pc = "body"
    /\ loading' = FALSE
    /\ inflight' = inflight \ {r}
    /\ sendLog' = [sendLog EXCEPT ![r.call].outcome = NotJson]
    /\ UNCHANGED <<messages, nextId, input, data, parsed, restVars>>

BodyNotJson(r) ==
    /\ r \in inflight /\ r.pc = "body"
    /\ Catch(r, NotJson, Err("Error", InvalidJsonText))

\* await res.text() resolves with the JSON text of d
BodyJson(r, d) ==
    /\ r \in inflight /\ r.pc = "body"
    /\ Finish(r, Json(d), BotMessage(nextId + 1, d))

Next ==
    \/ \E v \in Inputs : SetInput(v)
    \/ sendMessage
    \/ \E r \in inflight : FetchOk(r)
    \/ \E r \in inflight, status \in Statuses : FetchStatus(r, status)
    \/ \E r \in inflight, err \in Rejections : Reject(r, err)
    \/ \E r \in inflight : BodyNotJson(r)
    \/ \E r \in inflight, d \in ChatPayloads : BodyJson(r, d)

Spec == Init /\ [][Next]_vars

\* the completion of sendMessage: one input, one payload, and a request
\* that ends by a network error or by the timeout
LiveInputs == {<<>>, <<"b">>}

LivePayloads == {Payload(Str(<<"a">>), Undefined, Undefined)}

LiveRejections == {Err("TypeError", FailedToFetch), Err("TimeoutError", <<"t">>)}

\* a pending await settles: fetch ends by its response, by a network error
\* or by AbortSignal.timeout(30000), and the read of the body likewise
Settle ==
    \/ \E r \in inflight : FetchOk(r)
    \/ \E r \in inflight, status \in Statuses : FetchStatus(r, status)
    \/ \E r \in inflight, err \in LiveRejections : Reject(r, err)
    \/ \E r \in inflight : BodyNotJson(r)
    \/ \E r \in inflight, d \in LivePayloads : BodyJson(r, d)

LiveNext ==
    \/ \E v \in LiveInputs : SetInput(v)
    \/ sendMessage
    \/ Settle

LiveSpec == Init /\ [][LiveNext]_vars /\ WF_vars(Settle)

\* ----------------------------------------------------- extractor harness
ParseInit ==
    /\ ChatInit
    /\ data \in ParsePayloads
    /\ parsed = Undefined
    /\ CsvIdle
    /\ InvIdle
    /\ StreamIdle
    /\ AppIdle
    /\ DaemoIdle

\* const { text, table } = parseDaemoResponse(data)
Parse ==
    /\ parsed = Undefined
    /\ parsed' = parseDaemoResponse(data)
    /\ UNCHANGED <<data, messages, input, loading, inflight, nextId, sendLog, restVars>>

ParseNext == Parse

ParseSpec == ParseInit /\ [][ParseNext]_vars

\* ------------------------------------------------------------ CSV harness
CsvInit ==
    /\ ChatInit
    /\ data = Undefined
    /\ parsed = Undefined
    /\ csvText \in CsvTexts
    /\ csvParsed = Undefined
    /\ InvIdle
    /\ StreamIdle
    /\ AppIdle
    /\ DaemoIdle

\* const data = parseCSV(csvText)
ParseCsv ==
    /\ csvParsed = Undefined
    /\ csvParsed' = Arr(parseCSV(csvText))
    /\ UNCHANGED <<chatVars, parseVars, daemoVars, csvText, invVars, streamVars, appVars>>

CsvNext == ParseCsv

CsvSpec == CsvInit /\ [][CsvNext]_vars

\* ------------------------------------------------------- inventory harness
InvInit ==
    /\ ChatInit
    /\ data = Undefined
    /\ parsed = Undefined
    /\ CsvIdle
    /\ sheetRows \in Sheets
    /\ lowStock = Undefined
    /\ stockCalls = [c \in StockCalls |-> NoCall]
    /\ sheetWrites = <<>>
    /\ sheetAtStart = sheetRows
    /\ StreamIdle
    /\ AppIdle
    /\ DaemoIdle

\* async getLowStockItems(): the rows read by getSheet, filtered and mapped
getLowStockItems ==
    /\ lowStock = Undefined
    /\ lowStock' = Arr(LowStockItems(sheetRows))
    /\ UNCHANGED <<chatVars, parseVars, daemoVars, csvVars, sheetRows, streamVars, appVars,
                   stockCalls, sheetWrites, sheetAtStart>>

InvNext == getLowStockItems

InvSpec == InvInit /\ [][InvNext]_vars

\* the writers: two tool calls, each one of the two operations, in any order
StockInit ==
    /\ ChatInit
    /\ data = Undefined
    /\ parsed = Undefined
    /\ CsvIdle
    /\ sheetRows \in StockSheets
    /\ lowStock = Undefined
    /\ stockCalls = [c \in StockCalls |-> NoCall]
    /\ sheetWrites = <<>>
    /\ sheetAtStart = sheetRows
    /\ StreamIdle
    /\ AppIdle
    /\ DaemoIdle

StockNext ==
    \/ \E c \in StockCalls, sku \in StockSkus, amount \in Amounts : modifyStockQuantity(c, sku, amount)
    \/ \E c \in StockCalls : ValuesUpdate(c)
    \/ \E c \in StockCalls, sku \in StockSkus : addNewProduct(c, sku)
    \/ \E c \in StockCalls : ValuesAppend(c)

StockSpec == StockInit /\ [][StockNext]_vars

\* ---------------------------------------------------------- stream harness
StreamInit ==
    /\ ChatInit
    /\ data = Undefined
    /\ parsed = Undefined
    /\ CsvIdle
    /\ InvIdle
    /\ StreamIdle
    /\ AppIdle
    /\ DaemoIdle

StreamNext ==
    \/ \E v \in StreamInputs : ~loading /\ SetInput(v)
    \/ streamSendMessage
    \/ \E query \in Queries : Post(query)
    \/ \E session \in BOOLEAN : processQueryStreamed(session)
    \/ \E d \in StreamData : onData(d)
    \/ \E message \in ErrorMessages : onError(message)
    \/ onEnd
    \/ onClose
    \/ \E n \in 1..Len(Utf8(res.body)) : Chunk(n)
    \/ ReadBody
    \/ ReadFails

StreamSpec == StreamInit /\ [][StreamNext]_vars

\* ----------------------------------------------- the rest of the component
\* the messages that show the button of toggleTable: hasTable (line 2143)
HasTable(m) == m.role = "bot" /\ m.table # Undefined /\ m.table # Null /\ Len(m.table.a) > 0

\* toggleTable(id): next.has(id) ? next.delete(id) : next.add(id)
toggleTable_InMessage(id) ==
    /\ \E n \in 1..Len(messages) : messages[n].id = id /\ HasTable(messages[n])
    /\ expandedTables' = IF id \in expandedTables THEN expandedTables \ {id}
                         ELSE expandedTables \cup {id}
    /\ messages' = [n \in 1..Len(messages) |->
                       IF messages[n].id = id
                       THEN [messages[n] EXCEPT !.status = "expanded"] ELSE messages[n]]
    /\ UNCHANGED <<input, loading, inflight, nextId, sendLog, parseVars, daemoVars, csvVars, invVars,
                   streamVars, serverStatus, sheetData, sheetLoading, sheetError>>

toggleTable(id) ==
    /\ \E n \in 1..Len(messages) : messages[n].id = id /\ HasTable(messages[n])
    /\ expandedTables' = IF id \in expandedTables THEN expandedTables \ {id}
                         ELSE expandedTables \cup {id}
    /\ UNCHANGED <<chatVars, parseVars, daemoVars, csvVars, invVars, streamVars,
                   serverStatus, sheetData, sheetLoading, sheetError>>

\* wakeServer up to its await: the button is disabled while checking
wakeServer ==
    /\ serverStatus # "checking"
    /\ serverStatus' = "checking"
    /\ UNCHANGED <<chatVars, parseVars, daemoVars, csvVars, invVars, streamVars,
                   expandedTables, sheetData, sheetLoading, sheetError>>

\* the probe ends: res.ok gives "online"; a status that is not ok, a
\* rejection and the 8000 ms timeout give "offline"
WakeDone_EndsLoading(ok) ==
    /\ serverStatus = "checking"
    /\ serverStatus' = IF ok THEN "online" ELSE "offline"
    /\ loading' = FALSE
    /\ UNCHANGED <<messages, input, inflight, nextId, sendLog, parseVars, daemoVars, csvVars, invVars,
                   streamVars, expandedTables, sheetData, sheetLoading, sheetError>>

WakeDone(ok) ==
    /\ serverStatus = "checking"
    /\ serverStatus' = IF ok THEN "online" ELSE "offline"
    /\ UNCHANGED <<chatVars, parseVars, daemoVars, csvVars, invVars, streamVars,
                   expandedTables, sheetData, sheetLoading, sheetError>>

\* fetchGoogleSheetData up to its first await: the buttons that call it
\* are disabled or hidden while sheetLoading
fetchGoogleSheetData ==
    /\ ~sheetLoading
    /\ sheetLoading' = TRUE
    /\ sheetError' = Null
    /\ UNCHANGED <<chatVars, parseVars, daemoVars, csvVars, invVars, streamVars,
                   expandedTables, serverStatus, sheetData>>

\* the sheet is read: setSheetData(parseCSV(csvText)), then the finally block
SheetLoaded(text) ==
    /\ sheetLoading
    /\ sheetData' = parseCSV(text)
    /\ sheetLoading' = FALSE
    /\ UNCHANGED <<chatVars, parseVars, daemoVars, csvVars, invVars, streamVars,
                   expandedTables, serverStatus, sheetError>>

SheetNotPublished ==
    <<"Failed to fetch sheet data. Make sure the sheet is published to the web (File -> Share -> Publish to web).">>

\* the catch block: the message of the error thrown for a response that is
\* not ok or of the rejection of fetch or text(), then the finally block
SheetFailed(err) ==
    /\ sheetLoading
    /\ sheetError' = Str(err.message)
    /\ sheetLoading' = FALSE
    /\ UNCHANGED <<chatVars, parseVars, daemoVars, csvVars, invVars, streamVars,
                   expandedTables, serverStatus, sheetData>>

\* useEffect(() => { wakeServer(); fetchGoogleSheetData(); }, [])
Mount ==
    /\ serverStatus = "idle" /\ ~sheetLoading /\ sheetData = <<>> /\ sheetError = Null
    /\ serverStatus' = "checking"
    /\ sheetLoading' = TRUE
    /\ sheetError' = Null
    /\ UNCHANGED <<chatVars, parseVars, daemoVars, csvVars, invVars, streamVars, expandedTables, sheetData>>

\* ------------------------------------------------------ app harness: inputs
AppInputs == {<<"b">>}

TablePayload == Payload(Undefined, Undefined, StoredTool(PreviewStr("json", Obj(RowA))))

AppRejections == {Err("TypeError", FailedToFetch)}

SheetTexts == {<<"a", ",", "b", "\n", "a", ",", "b">>}

SheetErrors == {Err("Error", SheetNotPublished)}

AppInit ==
    /\ ChatInit
    /\ data = Undefined
    /\ parsed = Undefined
    /\ CsvIdle
    /\ InvIdle
    /\ StreamIdle
    /\ AppIdle
    /\ DaemoIdle

AppNext ==
    \/ \E v \in AppInputs : SetInput(v)
    \/ sendMessage
    \/ \E r \in inflight : FetchOk(r)
    \/ \E r \in inflight, status \in Statuses : FetchStatus(r, status)
    \/ \E r \in inflight, err \in AppRejections : Reject(r, err)
    \/ \E r \in inflight : BodyNotJson(r)
    \/ \E r \in inflight : BodyJson(r, TablePayload)
    \/ \E n \in 1..Len(messages) : toggleTable(messages[n].id)
    \/ Mount
    \/ wakeServer
    \/ \E ok \in BOOLEAN : WakeDone(ok)
    \/ fetchGoogleSheetData
    \/ \E text \in SheetTexts : SheetLoaded(text)
    \/ \E err \in SheetErrors : SheetFailed(err)

AppSpec == AppInit /\ [][AppNext]_vars

\* ----------------------------------------------------------- daemo harness
DaemoInit ==
    /\ ChatInit
    /\ data = Undefined
    /\ parsed = Undefined
    /\ CsvIdle
    /\ InvIdle
    /\ StreamIdle
    /\ AppIdle
    /\ DaemoIdle

DaemoNext ==
    \/ \E c \in Callers : initDaemo(c, FALSE)
    \/ \E c \in Callers : StartResolves(c)
    \/ \E c \in Callers : StartRejects(c)

DaemoSpec == DaemoInit /\ [][DaemoNext]_vars

\* ------------------------------------------------- properties of the extractor
\* the stored items of all tool records of a payload, in scan order
RECURSIVE AllStored(_)
AllStored(tools) ==
    IF tools = <<>> THEN <<>>
    ELSE (IF ToolStored(Head(tools)).kind = "arr" THEN ToolStored(Head(tools)).a ELSE <<>>)
            \o AllStored(Tail(tools))

\* the table a stored item yields on its own, Null when it yields none
ItemTable(item) ==
    IF Truthy(ItemPreview(item))
    THEN normalizeToTable(safeParsePreview(ItemPreview(item)))
    ELSE Null

\* the candidates: the tables the stored previews of a payload yield, in order
Candidates(d) ==
    IF Field(d, "toolInteractions").kind = "arr"
    THEN SelectSeq([i \in 1..Len(AllStored(Field(d, "toolInteractions").a)) |->
                        ItemTable(AllStored(Field(d, "toolInteractions").a)[i])],
                   LAMBDA c : c # Null)
    ELSE <<>>

NonSummaryAt(d) == {i \in 1..Len(Candidates(d)) : ~isSummaryObject(Candidates(d)[i].a[1])}

\* C3: over the stored previews of a payload the retained table is the last
\* non-summary candidate if there is one, and otherwise the first (summary)
\* candidate
C3_PreviewPolicy ==
    (parsed # Undefined /\ Candidates(data) # <<>>) =>
        IF NonSummaryAt(data) # {}
        THEN parsed.table = Candidates(data)[GreatestOf(NonSummaryAt(data))]
        ELSE parsed.table = Candidates(data)[1]

\* C4: when some stored preview yields a table, the retained table is one a
\* stored preview yielded, never a direct result object
C4_DirectResultOnlyAsFallback ==
    (parsed # Undefined /\ Candidates(data) # <<>>) =>
        \E i \in 1..Len(Candidates(data)) : parsed.table = Candidates(data)[i]

\* C5: the table is null or a non-empty sequence of object-typed rows
C5_TableRowsAreObjects ==
    parsed # Undefined =>
        \/ parsed.table = Null
        \/ /\ parsed.table.kind = "arr"
           /\ Len(parsed.table.a) >= 1
           /\ \A i \in 1..Len(parsed.table.a) : parsed.table.a[i].kind \in {"obj", "arr"}

\* a payload whose preview array held non-object elements gave a table of
\* the object elements alone
C5_Witness ==
    /\ data = Payload(Undefined, Undefined,
                      StoredTool(PreviewStr("literal",
                          Arr(<<Null, Obj(RowB), Scalar(TRUE), Obj(RowA)>>))))
    /\ parsed # Undefined
    /\ parsed.table = Arr(<<Obj(RowB), Obj(RowA)>>)

\* C6: a text field with non-whitespace content is the result text, trimmed,
\* whatever jsx and toolInteractions hold; jsx gives the text only when the
\* text field is absent, not a string or blank
C6_TextFieldFirst ==
    parsed # Undefined =>
        /\ (Field(data, "text").kind = "str" /\ Trim(Field(data, "text").s) # <<>>)
              => parsed.text = Trim(Field(data, "text").s)
        /\ (/\ ~(Field(data, "text").kind = "str" /\ Trim(Field(data, "text").s) # <<>>)
            /\ Field(data, "jsx").kind = "str"
            /\ Trim(Field(data, "jsx").s) # <<>>
            /\ extractTextFromJSX(Field(data, "jsx").s) # <<>>)
              => parsed.text = extractTextFromJSX(Field(data, "jsx").s)

\* a padded text field won over a jsx field that yields a text and over a
\* table
C6_Witness ==
    /\ data = Payload(Str(<<" ", "a", "\n">>), Str(<<"<p>", "a", "</p>">>),
                      StoredTool(ManyRows))
    /\ parsed # Undefined
    /\ parsed.text = <<"a">>

\* no text comes from the text and jsx fields, and a table was retained
TableOnly ==
    /\ parsed # Undefined
    /\ DeriveText(data) = <<>>
    /\ parsed.table # Null

\* C7 as claimed: with no derived text and a table of N rows the text is
\* exactly "Found N results."
C7_FoundNResults ==
    TableOnly =>
        parsed.text = FoundPrefix \o Digits(Len(parsed.table.a))
                        \o ResultWord \o <<"s", ".">>

\* C7 as amended: the text is "Found N results. See table below.", with
\* "result" in the singular for N = 1
C7_FoundNResultsSeeTable ==
    TableOnly =>
        /\ Len(parsed.table.a) = 1 =>
              parsed.text = FoundPrefix \o <<"1">> \o ResultWord \o SeeTableBelow
        /\ Len(parsed.table.a) # 1 =>
              parsed.text = FoundPrefix \o Digits(Len(parsed.table.a))
                              \o ResultWord \o <<"s">> \o SeeTableBelow

\* a table of ten rows and no text gave "Found 10 results. See table below."
C7_Witness ==
    /\ data = Payload(Str(<<" ">>), Str(<<"<br/>">>), StoredTool(ManyRows))
    /\ TableOnly
    /\ Len(parsed.table.a) = 10
    /\ SubSeq(parsed.text, 1, 16) = FoundPrefix \o <<"1", "0">> \o ResultWord \o <<"s">>

\* ------------------------------------------------ properties of the chat client
\* the positions of the messages with id i
MessagesWithId(i) == {n \in 1..Len(messages) : messages[n].id = i}

\* the sendLog entries of the calls that passed the guard, in order
StartedCalls == SelectSeq(sendLog, LAMBDA e : e.started)

BotCount == Cardinality({n \in 1..Len(messages) : messages[n].role = "bot"})

\* C1: at most one chat request is in flight
C1_AtMostOneInFlight == Cardinality(inflight) <= 1

\* a send was attempted while a request was open, and that request is still
\* the only one in flight
C1_Witness ==
    /\ Cardinality(inflight) = 1
    /\ \E k \in 1..Len(sendLog) : sendLog[k].whileOpen /\ sendLog[k].query # <<>>

ExtractionMiss(d) ==
    d.kind = "payload" /\ DeriveText(d) = <<>> /\ DeriveTable(d) = Null

\* C8: a well-formed payload that yields neither text nor table gives one
\* bot message with the fixed notice, a null table and status ok
C8_ExtractionMissIsNotAnError ==
    \A k \in 1..Len(sendLog) :
        (sendLog[k].outcome.kind = "json" /\ ExtractionMiss(sendLog[k].outcome.data)) =>
            /\ Cardinality(MessagesWithId(sendLog[k].bot)) = 1
            /\ \A n \in MessagesWithId(sendLog[k].bot) :
                  messages[n] = Message(sendLog[k].bot, "bot", NoReadableResponse, Null, "ok")

\* a payload with a blank text, a jsx of tags only and an unparsable preview
\* was answered by the notice
C8_Witness ==
    \E k \in 1..Len(sendLog) :
        /\ sendLog[k].outcome.kind = "json"
        /\ sendLog[k].outcome.data
              = Payload(Str(<<" ">>), Str(<<"<br/>">>), StoredTool(PreviewStr("garbage", Null)))
        /\ \E n \in MessagesWithId(sendLog[k].bot) :
              messages[n].text = NoReadableResponse /\ messages[n].status = "ok"

\* the call failed: a non-success status, a network error or a timeout
Failed(e) ==
    \/ e.outcome.kind = "status"
    \/ e.outcome.kind = "reject" /\ e.outcome.err.name \in {"TypeError", "TimeoutError"}

TimedOut(e) == e.outcome.kind = "reject" /\ e.outcome.err.name = "TimeoutError"

\* C9: a failed request gives exactly one bot message, in the error state and
\* without a table, and its text is the timeout text exactly when the
\* failure was a timeout
C9_FailureGivesOneErrorMessage ==
    /\ BotCount = Cardinality({k \in 1..Len(sendLog) : sendLog[k].outcome # Pending})
    /\ \A k \in 1..Len(sendLog) :
          Failed(sendLog[k]) =>
              /\ Cardinality(MessagesWithId(sendLog[k].bot)) = 1
              /\ \A n \in MessagesWithId(sendLog[k].bot) :
                    /\ messages[n].role = "bot"
                    /\ messages[n].status = "error"
                    /\ messages[n].table = Undefined
                    /\ (messages[n].text = TimeoutText) <=> TimedOut(sendLog[k])

\* three requests failed, by a timeout, a network error and a bad status, and
\* the list holds their three error messages
C9_Witness ==
    /\ Len(sendLog) = 3
    /\ TimedOut(sendLog[1])
    /\ sendLog[2].outcome.kind = "reject" /\ sendLog[2].outcome.err.name = "TypeError"
    /\ sendLog[3].outcome.kind = "status"
    /\ BotCount = 3
    /\ messages[2].text = TimeoutText
    /\ messages[4].text = ErrorPrefix \o FailedToFetch
    /\ messages[6].text = ErrorPrefix \o StatusPrefix \o <<"5", "0", "0">>

Aborted(e) == e.outcome.kind = "reject" /\ e.outcome.err.name = "AbortError"

C11_NotJsonGivesOneGenericError ==
    /\ loading <=> inflight # NoRequest
    /\ \A k \in 1..Len(sendLog) :
          sendLog[k].outcome = NotJson =>
              /\ Cardinality(MessagesWithId(sendLog[k].bot)) = 1
              /\ \A n \in MessagesWithId(sendLog[k].bot) :
                    messages[n] = Message(sendLog[k].bot, "bot",
                                          ErrorPrefix \o InvalidJsonText, Undefined, "error")

\* a call ended on a body that is not JSON; its error message is the last of
\* the list and the client is idle
C11_Witness ==
    /\ ~loading
    /\ Len(sendLog) = 1
    /\ sendLog[1].outcome = NotJson
    /\ Len(messages) = 2
    /\ messages[2].status = "error"
    /\ messages[2].text = ErrorPrefix \o InvalidJsonText

\* ------------------------------------------------------ properties of parseCSV
\* the positions of a line's commas that have an even number of quote
\* characters before them, in order, closed by the position after the line
QuotesBefore(line, i) == Cardinality({j \in 1..(i - 1) : line[j] = "\""})

OutsideCommas(line) == {i \in 1..Len(line) : line[i] = "," /\ QuotesBefore(line, i) % 2 = 0}

RECURSIVE Ascending(_)
Ascending(S) == IF S = {} THEN <<>> ELSE <<LeastOf(S)>> \o Ascending(S \ {LeastOf(S)})

Cuts(line) == <<0>> \o Ascending(OutsideCommas(line)) \o <<Len(line) + 1>>

IsQuote(c) == c = "\""

NotQuote(c) == ~IsQuote(c)

\* the k-th field of a line: what lies between two cuts, quotes removed, trimmed
FieldOf(line, k) ==
    Trim(SelectSeq(SubSeq(line, Cuts(line)[k] + 1, Cuts(line)[k + 1] - 1), NotQuote))

FieldsOf(line) == [k \in 1..(Cardinality(OutsideCommas(line)) + 1) |-> FieldOf(line, k)]

\* the data lines that parseCSV keeps, in order
KeptLines(text) ==
    SelectSeq(Tail(SplitLines(text)), LAMBDA l : \E k \in 1..Len(FieldsOf(l)) : FieldsOf(l)[k] # <<>>)

HeaderNames(text) ==
    [k \in 1..Len(FieldsOf(Head(SplitLines(text)))) |-> StripBom(FieldsOf(Head(SplitLines(text)))[k])]

\* C17: a comma inside quotes does not split a field and the quotes are not
\* part of the value: every line with k commas outside quotes is read as
\* k+1 trimmed fields without quote characters, and the document
\* sku,name / "A,1","Widget, Inc" gives the one row {sku: A,1 ; name: Widget, Inc}
C17_QuotedCommaDoesNotSplit ==
    csvParsed # Undefined =>
        /\ \A i \in 1..Len(SplitLines(csvText)) :
              LET line == SplitLines(csvText)[i]
              IN  /\ Len(ParseRow(line)) = Cardinality(OutsideCommas(line)) + 1
                  /\ ParseRow(line) = FieldsOf(line)
                  /\ \A k \in 1..Len(ParseRow(line)) :
                        /\ \A n \in 1..Len(ParseRow(line)[k]) : NotQuote(ParseRow(line)[k][n])
                        /\ Trim(ParseRow(line)[k]) = ParseRow(line)[k]
        /\ \A j \in 1..Len(csvParsed.a) : \A h \in DOMAIN csvParsed.a[j] :
              \A n \in 1..Len(csvParsed.a[j][h]) : NotQuote(csvParsed.a[j][h][n])
        /\ csvText = QuotedExample =>
              csvParsed = Arr(<<[h \in {<<"s", "k", "u">>, <<"n", "a", "m", "e">>} |->
                                   IF h = <<"s", "k", "u">>
                                   THEN <<"A", ",", "1">>
                                   ELSE <<"W", "i", "d", "g", "e", "t", ",", " ", "I", "n", "c">>]>>)

C17_Witness ==
    /\ csvText = QuotedExample
    /\ csvParsed # Undefined
    /\ Len(csvParsed.a) = 1

\* C18: in a document with a data row every row object has exactly the
\* header names as keys; a column the data line has no field for holds the
\* empty string and fields beyond the header count are left out
C18_RowKeysAreHeaders ==
    csvParsed # Undefined /\ Len(SplitLines(csvText)) >= 2 =>
        /\ Len(csvParsed.a) = Len(KeptLines(csvText))
        /\ \A j \in 1..Len(csvParsed.a) :
              LET names == HeaderNames(csvText)
                  fields == FieldsOf(KeptLines(csvText)[j])
              IN  /\ DOMAIN csvParsed.a[j] = {names[k] : k \in 1..Len(names)}
                  /\ \A k \in 1..Len(names) :
                        (\A m \in (k + 1)..Len(names) : names[m] # names[k]) =>
                            csvParsed.a[j][names[k]] = IF k <= Len(fields) THEN fields[k] ELSE <<>>

\* one row shorter and one row longer than the header row
C18_Witness ==
    /\ csvParsed # Undefined
    /\ Len(csvParsed.a) = 2
    /\ Len(HeaderNames(csvText)) = 3
    /\ Len(FieldsOf(KeptLines(csvText)[1])) = 4
    /\ Len(FieldsOf(KeptLines(csvText)[2])) = 1
    /\ DOMAIN csvParsed.a[2] = {<<"a">>, <<"b">>}
    /\ csvParsed.a[2][<<"b">>] = <<>>

\* ------------------------------------------- properties of InventoryService
Quantity(r) == ParseOrZero(CellAt(r, 4))

ReorderPoint(r) == ParseOrZero(CellAt(r, 6))

BelowReorderPoint(r) == Quantity(r) < ReorderPoint(r)

\* C20: getLowStockItems returns exactly the rows whose quantity is below
\* their reorder point, so none whose quantity equals it
C20_LowStockIsStrictlyBelow ==
    lowStock # Undefined =>
        LET below == SelectSeq(Tail(sheetRows), BelowReorderPoint)
        IN  lowStock = Arr([i \in 1..Len(below) |-> cleanItem(rowToItem(below[i], i + 1))])

\* ------------------------------------------ properties of the streaming endpoint
Sentinel == <<"[", "D", "O", "N", "E", "]">>

HasPrefix(line, prefix) == Len(line) >= Len(prefix) /\ SubSeq(line, 1, Len(prefix)) = prefix

AfterPrefix(line, prefix) == SubSeq(line, Len(prefix) + 1, Len(line))

IsJsonObject(line) == JsonParse(line) # Undefined

\* a line that carries a JSON object, bare or behind the event prefix
IsJsonFrame(line) ==
    \/ IsJsonObject(line)
    \/ HasPrefix(line, DataPrefix) /\ IsJsonObject(AfterPrefix(line, DataPrefix))

IsDataFrame(line) == HasPrefix(line, DataPrefix) /\ IsJsonObject(AfterPrefix(line, DataPrefix))

Lines == SplitLines(res.body)

\* the line that opens the error frame, 0 when there is none
ErrorLine ==
    IF \E i \in 1..Len(Lines) : Lines[i] = EventError
    THEN LeastOf({i \in 1..Len(Lines) : Lines[i] = EventError})
    ELSE 0

\* C16 as claimed: every non-empty line written to the response is the
\* sentinel, a bare JSON object, or `data: ` followed by a JSON object
C16_LinesAreJsonFrames ==
    \A i \in 1..Len(Lines) :
        Lines[i] # <<>> => Lines[i] = Sentinel \/ IsJsonFrame(Lines[i])

\* C16 as amended: a refused request is answered with one bare JSON
\* object; of a streamed response every non-empty line up to the error
\* frame is `data: ` followed by a JSON object or the line `event: end`,
\* the error frame is the line `event: error` followed by `data: ` and the
\* text of the message as it is, and no line before it is the sentinel
C16_LinesAreEventStreamFrames ==
    /\ res.status \in {400, 500} => IsJsonObject(res.body)
    /\ res.status \in {0, 200} =>
          /\ \A i \in 1..Len(Lines) :
                Lines[i] # <<>> /\ (ErrorLine = 0 \/ i < ErrorLine) =>
                    IsDataFrame(Lines[i]) \/ Lines[i] = EventEnd
          /\ \A i \in 1..Len(Lines) :
                Lines[i] = EventEnd /\ ErrorLine = 0 =>
                    /\ i < Len(Lines)
                    /\ Lines[i + 1] = DataPrefix \o <<JsonEmpty>>
                    /\ \A j \in (i + 2)..Len(Lines) : Lines[j] = <<>>
                    /\ res.ended
          /\ ErrorLine > 0 =>
                /\ ErrorLine < Len(Lines)
                /\ HasPrefix(Lines[ErrorLine + 1], DataPrefix)
                /\ res.ended
    /\ res.status = 0 => res.body = <<>>

C16_Witness ==
    /\ res.status = 200 /\ res.ended
    /\ res.body = DataFrame([text |-> <<"a">>]) \o ErrorFrame(<<"a", "\n", "b">>)

\* the objects of the well-formed frames of a body, in order
FrameLines(body) == SelectSeq(SplitLines(body), IsJsonFrame)

FrameOf(line) ==
    IF IsJsonObject(line) THEN JsonParse(line) ELSE JsonParse(AfterPrefix(line, DataPrefix))

TextFrames(body) ==
    SelectSeq(FrameLines(body), LAMBDA l : "text" \in DOMAIN FrameOf(l) /\ FrameOf(l).text # <<>>)

\* the request of the client has been answered from a body that ended
Answered == Len(messages) = 2 /\ ~loading /\ ~res.aborted

\* C14: a line that is not JSON is left out and the rest is delivered: when
\* the body holds a well-formed frame with text, the answer shows text and
\* is not an error
C14_MalformedLineDiscarded ==
    Answered /\ TextFrames(res.body) # <<>> =>
        /\ \A k \in 1..Len(messages[2].content) : messages[2].content[k].type # "error"
        /\ \E k \in 1..Len(messages[2].content) : messages[2].content[k].type = "text"

C12_MessagesOnlyAppended ==
    [][/\ Len(messages') >= Len(messages)
       /\ \A n \in 1..Len(messages) : messages'[n] = messages[n]]_vars

\* a table was opened, the sheet was read, the probe has ended and a later
\* request has failed, with the first answer still in its place
C12_Witness ==
    /\ Len(messages) = 4
    /\ HasTable(messages[2]) /\ messages[2].status = "ok"
    /\ messages[2].id \in expandedTables
    /\ messages[4].status = "error"
    /\ sheetData # <<>>
    /\ serverStatus = "online"

\* --------------------------------------------- the classification of candidates
AggregateNames ==
    {"totalProducts", "totalQuantity", "totalValue", "lowStockCount",
     "outOfStockCount", "executionTime", "meta", "status", "error", "functionsUsed"}

\* Object.keys(row)
KeysOf(row) == DOMAIN Props(row)

\* the stored items of a payload that yield a candidate
CandidateItems(d) ==
    IF Field(d, "toolInteractions").kind = "arr"
    THEN SelectSeq(AllStored(Field(d, "toolInteractions").a), LAMBDA it : ItemTable(it) # Null)
    ELSE <<>>

\* a table retained before the item is reached
Retained == Arr(<<Obj([retained |-> 1])>>)

\* a candidate is treated as a summary when it does not replace a table
\* retained before it, and as row data when it does
TreatedAsSummary(item) == StoredItem(Retained, item) = Retained

TreatedAsRows(item) == StoredItem(Retained, item) = ItemTable(item)

\* C21 as claimed: a candidate is a summary exactly when every key of its
\* first row is an aggregate field name, a row without keys included
C21_SummaryIffAllKeysAggregate ==
    parsed # Undefined =>
        \A i \in 1..Len(CandidateItems(data)) :
            LET item == CandidateItems(data)[i]
                row == ItemTable(item).a[1]
            IN  /\ TreatedAsSummary(item) <=> (\A k \in KeysOf(row) : k \in AggregateNames)
                /\ TreatedAsRows(item) <=> ~TreatedAsSummary(item)

\* C21 as amended: a candidate is a summary exactly when its first row has
\* at least one key and every key of that row is an aggregate field name;
\* the rows after the first do not count
C21_SummaryIffFirstRowAggregate ==
    parsed # Undefined =>
        \A i \in 1..Len(CandidateItems(data)) :
            LET item == CandidateItems(data)[i]
                row == ItemTable(item).a[1]
            IN  /\ TreatedAsSummary(item) <=>
                      (KeysOf(row) # {} /\ \A k \in KeysOf(row) : k \in AggregateNames)
                /\ TreatedAsRows(item) <=> ~TreatedAsSummary(item)

\* a payload with a candidate whose first row has no keys and a candidate
\* of several rows whose first row is a summary
C21_Witness ==
    /\ parsed # Undefined
    /\ Len(CandidateItems(data)) = 2
    /\ KeysOf(ItemTable(CandidateItems(data)[1]).a[1]) = {}
    /\ Len(ItemTable(CandidateItems(data)[2]).a) = 2
    /\ TreatedAsRows(CandidateItems(data)[1])
    /\ TreatedAsSummary(CandidateItems(data)[2])
    /\ parsed.table = ItemTable(CandidateItems(data)[1])

\* the state of the sheet panel and the state the chat and the tables own
sheetState == <<sheetData, sheetLoading, sheetError>>

chatState == <<messages, input, loading, inflight, nextId, expandedTables>>

\* C22: a step that changes the server status or the sheet state leaves the
\* messages, the chat loading flag and the expansion set as they are; after
\* the mount effect, which starts both fetches at once, a step never changes
\* the server status together with the sheet state
C22_BackgroundFetchesAreIndependent ==
    [][/\ (serverStatus' # serverStatus \/ sheetState' # sheetState) => chatState' = chatState
       /\ (serverStatus # "idle" /\ serverStatus' # serverStatus) => sheetState' = sheetState
       /\ (serverStatus # "idle" /\ sheetState' # sheetState) => serverStatus' = serverStatus]_vars

\* both fetches have ended while a chat request is open
C22_Witness ==
    /\ loading /\ inflight # NoRequest
    /\ Len(messages) = 1
    /\ serverStatus = "offline"
    /\ ~sheetLoading /\ sheetError # Null

\* ------------------------------------------------ properties of daemoService
Attempting == {c \in Callers : daemoPc[c] = "start"}

C29_SessionImpliesConnection ==
    /\ [](sessionData # Null => connection # Null)
    /\ [][\A c \in Callers :
            (daemoPc[c] = "start" /\ daemoPc'[c] = "idle" /\ sessionData' = Null) =>
                /\ connection' = Null
                /\ initResult'[c].threw]_vars

\* C30: at most one attempt is in progress, and connecting is true exactly
\* while one is
C30_OneAttemptAtATime ==
    /\ Cardinality(Attempting) <= 1
    /\ connecting <=> Attempting # {}
    /\ (~connecting /\ connection = Null) => \A c \in Callers : ENABLED initDaemo(c, FALSE)

\* an attempt failed, a later one succeeded
C29_Witness ==
    /\ initResult["health"].threw
    /\ initResult["main"].called /\ ~initResult["main"].threw
    /\ sessionData # Null /\ connection # Null /\ ~connecting

\* after a failed attempt a new one is in progress, and a third caller
\* has come and gone meanwhile
C30_Witness ==
    /\ initResult["keepAlive"].threw
    /\ Attempting = {"main"} /\ connecting
    /\ initResult["health"].called /\ ~initResult["health"].threw

\* ---------------------------------------------- InventoryService: writers
\* no call stands between its read of the sheet and its write
Settled == \A c \in StockCalls : stockCalls[c].pc \in {"idle", "done"}

\* the calls of modifyStockQuantity on a SKU that reported success
Succeeded(sku) ==
    {c \in StockCalls : stockCalls[c].op = "modify" /\ stockCalls[c].sku = sku
                        /\ stockCalls[c].success}

RECURSIVE SumOfAmounts(_)
SumOfAmounts(cs) ==
    IF cs = {} THEN 0
    ELSE LET c == CHOOSE x \in cs : TRUE IN stockCalls[c].amount + SumOfAmounts(cs \ {c})

QuantityOf(rows, sku) == ParseOrZero(CellAt(rows[FindIndex(rows, sku)], 4))

\* C24: once all calls of modifyStockQuantity have completed, the quantity
\* of every SKU in the sheet is its initial quantity plus the sum of the
\* amounts of the calls on it that reported success.
C24_QuantityIsInitialPlusSucceeded ==
    Settled =>
        \A p \in 2..Len(sheetAtStart) :
            LET sku == sheetAtStart[p][1]
            IN  QuantityOf(sheetRows, sku) = QuantityOf(sheetAtStart, sku) + SumOfAmounts(Succeeded(sku))

WritesBy(c) == SelectSeq(sheetWrites, LAMBDA w : w.by = c)

\* C25: no two data rows of the sheet have the same SKU, and a call of
\* addNewProduct whose SKU exists appends nothing and reports failure.
C25_SkusStayUnique ==
    /\ \A p, q \in 2..Len(sheetRows) :
           CellAt(sheetRows[p], 1) = CellAt(sheetRows[q], 1) => p = q
    /\ \A c \in StockCalls :
           (stockCalls[c].op = "add" /\ stockCalls[c].message = "SKU already exists") =>
               ~stockCalls[c].success /\ WritesBy(c) = <<>>

\* C26: modifyStockQuantity writes no negative quantity; a call that
\* reports failure has written nothing; a successful call has written one
\* value, to the quantity cell of a row with its SKU, and its write changes
\* nothing else in the sheet.
C26_ModifyWritesOnlyItsQuantityCell ==
    /\ [](\A c \in StockCalls :
            LET call == stockCalls[c] IN
            call.op = "modify" =>
                /\ \A i \in 1..Len(WritesBy(c)) :
                       LET w == WritesBy(c)[i] IN
                       /\ w.request = "update" /\ w.column = 4
                       /\ Len(w.values) = 1 /\ w.values[1].kind = "numcell" /\ w.values[1].n >= 0
                       /\ w.row > 1 /\ CellAt(sheetRows[w.row], 1) = call.sku
                /\ (call.pc = "done" /\ ~call.success) =>
                       WritesBy(c) = <<>> /\ call.message \in {"SKU not found", "Not enough stock"}
                /\ (call.pc = "done" /\ call.success) => Len(WritesBy(c)) = 1)
    /\ [][\A c \in StockCalls :
            (stockCalls[c].op = "modify" /\ stockCalls[c].pc = "update" /\ stockCalls'[c].pc = "done") =>
                /\ Len(sheetRows') = Len(sheetRows)
                /\ \A p \in 1..Len(sheetRows) : \A k \in 1..Len(sheetRows[p]) :
                       (p # stockCalls[c].index \/ k # 4) => sheetRows'[p][k] = sheetRows[p][k]
                /\ sheetRows'[stockCalls[c].index][4] = NumCell(stockCalls[c].value)]_vars

\* one call was refused for lack of stock and another has taken the
\* quantity of the second row to zero
C26_Witness ==
    /\ stockCalls["first"].message = "Not enough stock"
    /\ stockCalls["second"].op = "modify" /\ stockCalls["second"].success
    /\ Len(sheetWrites) = 1 /\ sheetWrites[1].row = 3 /\ sheetWrites[1].values = <<NumCell(0)>>

\* ------------------------------------------- streaming endpoint: callbacks
\* an onError or onEnd frame
IsLastFrame(frame) == HasPrefix(frame, EventError) \/ HasPrefix(frame, EventEnd)

\* the frames of the callbacks up to the first onError or onEnd
RECURSIVE UpToEnd(_)
UpToEnd(frames) ==
    IF frames = <<>> THEN <<>>
    ELSE IF IsLastFrame(Head(frames)) THEN <<Head(frames)>>
    ELSE <<Head(frames)>> \o UpToEnd(Tail(frames))

RECURSIVE Concat(_)
Concat(frames) == IF frames = <<>> THEN <<>> ELSE Head(frames) \o Concat(Tail(frames))

\* the body holds the frames of the callbacks made before the response
\* ended, in the order of the callbacks
FramesInCallOrder == stream # "none" => res.body = Concat(UpToEnd(calls))

\* C28: for any sequence of callbacks and a disconnect, res.end() is
\* called at most once, res.write() is not called on the ended response,
\* and the data frames are in the body in the order of the onData calls.
C28_EndedOnceNothingWrittenAfter ==
    /\ res.endCalls <= 1
    /\ res.writesAfterEnd = 0
    /\ FramesInCallOrder

\* ------------------------------------------------- sendMessage: completion
\* user and bot messages alternate, and the list ends with a user message
\* exactly while a request is running
Alternates ==
    /\ \A k \in 1..Len(messages) :
           messages[k].role = IF k % 2 = 1 THEN "user" ELSE "bot"
    /\ loading <=> Len(messages) % 2 = 1

\* C27: every call of sendMessage that passes its guard is in the end
\* answered by one bot message placed after its user message, with loading
\* false again, however the request ends; and while loading is false the
\* list holds as many bot messages as user messages.
C27_EverySendIsAnswered ==
    /\ []Alternates
    /\ \A i \in 1..MaxCalls :
           (Len(sendLog) >= i /\ sendLog[i].started)
               ~> (Len(sendLog) >= i /\ sendLog[i].bot # 0 /\ sendLog[i].outcome # Pending)
    /\ [][loading /\ ~loading' =>
              /\ Len(messages') = Len(messages) + 1
              /\ messages'[Len(messages')].role = "bot"
              /\ \E i \in 1..Len(sendLog) :
                     sendLog[i].bot = 0 /\ sendLog'[i].bot = messages'[Len(messages')].id]_vars

\* one request has timed out and the next one has been answered
C27_Witness ==
    /\ Len(sendLog) = 2 /\ sendLog[1].started /\ sendLog[2].started
    /\ sendLog[1].outcome.kind = "reject" /\ sendLog[1].outcome.err.name = "TimeoutError"
    /\ sendLog[2].outcome.kind = "json"
    /\ Len(messages) = 4 /\ ~loading

====
